---- MODULE Spec2Model ----
(***************************************************************************)
(* LAN-Sharing-Service: the peer table (UDPPeerDiscovery.peers), the       *)
(* registry client and server, and the resource catalog                   *)
(* (FileShareManager) of a small set of hosts that exchange UDP datagrams. *)
(*                                                                         *)
(* Time is the wall clock in whole seconds.  Python dicts are functions    *)
(* whose DOMAIN is the set of keys present.                                *)
(***************************************************************************)
EXTENDS Integers, Sequences, FiniteSets, TLC

VARIABLES
    now,                    \* wall clock, seconds
    config,                 \* UDPPeerDiscovery.config, per host: the configured port
    messages,               \* UDPPeerDiscovery.messages, per host: the list of messages
    handlers,               \* the rendezvous server's request threads
    running,                \* UDPPeerDiscovery.running, per host
    peers,                  \* UDPPeerDiscovery.peers, per host: username -> Peer
    last_beacon,            \* history: when each row last saw a broadcast beacon
    net,                    \* datagrams in flight
    shared_resources,       \* FileShareManager.shared_resources  (owned)
    received_resources,     \* FileShareManager.received_resources
    downloaded_resources,   \* FileShareManager.downloaded_resources
    downloads,              \* download worker threads that were started
    local_copy,             \* the copies under share_dir/<owner>/ on disk
    file,                   \* the persisted .shared_resources.json
    registered,             \* RegistryClient.registered
    known_registry_peers,   \* RegistryClient.known_registry_peers
    srv_peers,              \* the rendezvous server's peers dict
    thr,                    \* position and locals of the threads working on the peer table
    consecutive_failures,   \* refresh_peers: the polls that failed in a row
    last                    \* history: the operation that produced this state

vars == <<now, config, messages, handlers, running, peers, last_beacon, net, shared_resources,
          received_resources, downloaded_resources, downloads, local_copy,
          file, registered, known_registry_peers, srv_peers, thr,
          consecutive_failures, last>>

(***************************************************************************)
(* Bounds of the model.                                                    *)
(***************************************************************************)
MaxTime == 3        \* the clock stops here
MaxNet == 2         \* datagrams in flight at once
MaxSec == 1         \* the clock of the catalog-only system stops here
MaxServerTime == 31 \* the clock of the rendezvous-server system stops here
MaxName == 2        \* characters of a username
MaxMtime == 1       \* the latest modification time of a shared file
MaxFailures == 6    \* registry polls that fail in a row
MaxMessages == 2    \* messages a host sends

(***************************************************************************)
(* Program constants.                                                      *)
(***************************************************************************)
peer_timeout == 2   \* Config.peer_timeout, seconds
StaleAfter == 30    \* rendezvous server staleness, seconds
FailureLimit == 5   \* refresh_peers: "if consecutive_failures > 5"
Colon == 58         \* ord(':'), the separator of the two usernames
HexDigits == 5      \* length of a conversation id
DefaultPort == 12345 \* Config._port, "Default port for all UDP communication"
NoPort == 0         \* "port: int = None", no port given by the caller

Hosts == {"a", "b"}
Users == Hosts
\* the characters of usernames: '#', 'a', 'b'
Chars == {35, 97, 98}
\* roles in the two-host scenarios: a is the peer that is watched and owns
\* the resources, b the host whose table and received catalog are examined
Sharers == {"a"}
Watched == {"a"}
Watchers == {"b"}
\* absolute paths <<directory, basename>>; the last one does not exist on disk
Paths == {<<"d1", "x">>, <<"d2", "x">>, <<"d3", "y">>}
ExistingPaths == {<<"d1", "x">>, <<"d2", "x">>}
OnePath == {<<"d1", "x">>}

(***************************************************************************)
(* dict helpers                                                            *)
(***************************************************************************)
Put(d, k, v) == [x \in (DOMAIN d) \cup {k} |-> IF x = k THEN v ELSE d[x]]
Del(d, k) == [x \in (DOMAIN d) \ {k} |-> d[x]]
Values(d) == {d[k] : k \in DOMAIN d}
EmptyDict == [x \in {} |-> 0]

RECURSIVE SetToSeq(_)
SetToSeq(S) ==
    IF S = {} THEN <<>>
    ELSE LET x == CHOOSE y \in S : TRUE IN <<x>> \o SetToSeq(S \ {x})
SeqToSet(s) == {s[i] : i \in DOMAIN s}

(***************************************************************************)
(* Peer (types.py) and the two upserts.  The address is left out: a host   *)
(* is named by its username.                                               *)
(***************************************************************************)
\* "port=self.config.port,  # Use config port for broadcast peers"
NewBroadcastPeer(port, t) ==
    [broadcast_peer |-> TRUE, registry_peer |-> FALSE, last_seen |-> t,
     port |-> port]

\* "port=port,  # Store the port explicitly"
NewRegistryPeer(port, t) ==
    [broadcast_peer |-> FALSE, registry_peer |-> TRUE, last_seen |-> t,
     port |-> port]

\* _handle_announcement, the branch for a row that exists
UpdateBroadcastPeer(peer, port, t) ==
    [peer EXCEPT !.last_seen = t, !.port = port, !.broadcast_peer = TRUE]

UpdateRegistryPeerOnly(peer, port, t) ==
    [peer EXCEPT !.last_seen = t, !.port = port, !.registry_peer = TRUE,
                 !.broadcast_peer = FALSE]

\* _process_registry_peer, the branch for a row that exists
UpdateRegistryPeer(peer, port, t) ==
    [peer EXCEPT !.last_seen = t, !.port = port, !.registry_peer = TRUE]

\* list_peers: time_diff <= peer_timeout
SignalActive(peer, t) == (t - peer.last_seen) <= peer_timeout

(***************************************************************************)
(* SharedResource (file_share.py).  A resource id is the string            *)
(* owner_int(time.time())_basename, here the triple.  A datetime is the    *)
(* second it falls in; its isoformat() string is another value.            *)
(***************************************************************************)
basename(path) == path[2]

getmtime(path) == 0

\* os.path.isdir: the paths shared in the model are files
isdir(path) == FALSE

\* Python's None
None == "None"

\* FileShareManager.default_password
default_password == "anonymous"

isoformat(t) == <<"iso", t>>

fromisoformat(string) == string[2]

ResourceId(owner, t, path) == <<owner, t, basename(path)>>

\* SharedResource.__init__ at the second t
SharedResource(owner, path, is_directory, shared_to_all, ftp_password, t) ==
    [id |-> ResourceId(owner, t, path),
     owner |-> owner,
     path |-> path,
     is_directory |-> is_directory,
     allowed_users |-> {},
     shared_to_all |-> shared_to_all,
     timestamp |-> t,
     ftp_password |-> ftp_password,
     modified_time |-> getmtime(path)]

\* the wire and file form: allowed_users becomes a list, timestamp a string
to_dict(r) ==
    [id |-> r.id, owner |-> r.owner, path |-> r.path,
     is_directory |-> r.is_directory,
     allowed_users |-> SetToSeq(r.allowed_users),
     shared_to_all |-> r.shared_to_all,
     timestamp |-> isoformat(r.timestamp),
     ftp_password |-> r.ftp_password,
     modified_time |-> r.modified_time]

from_dict_fresh_id(d) ==
    [SharedResource(d.owner, d.path, d.is_directory, d.shared_to_all,
                    d.ftp_password, now)
        EXCEPT !.allowed_users = SeqToSet(d.allowed_users),
               !.timestamp = fromisoformat(d.timestamp),
               !.modified_time = d.modified_time]

\* from_dict: a record is constructed now, then id, allowed_users, timestamp
\* and modified_time are assigned from the dictionary
from_dict(d) ==
    [SharedResource(d.owner, d.path, d.is_directory, d.shared_to_all,
                    d.ftp_password, now)
        EXCEPT !.id = d.id,
               !.allowed_users = SeqToSet(d.allowed_users),
               !.timestamp = fromisoformat(d.timestamp),
               !.modified_time = d.modified_time]

add_user(r, username) ==
    [r EXCEPT !.allowed_users = @ \cup {username}]

remove_user_kept(r, username) == r

remove_user(r, username) ==
    [r EXCEPT !.allowed_users = @ \ {username}]

can_access_without_acl(r, username) ==
    \/ r.owner = username
    \/ r.shared_to_all

can_access(r, username) ==
    \/ r.owner = username
    \/ username \in r.allowed_users
    \/ r.shared_to_all

SavedWithoutReceived(shared, received, downloaded) ==
    [shared |-> {to_dict(r) : r \in Values(shared)},
     received |-> {},
     downloaded |-> downloaded]

\* what _save_resources writes for the three collections
SavedCatalog(shared, received, downloaded) ==
    [shared |-> {to_dict(r) : r \in Values(shared)},
     received |-> {to_dict(r) : r \in Values(received)},
     downloaded |-> downloaded]

_find_nothing(h, path) == {}

\* _find_existing_shared_resource: the owned records of this absolute path
_find_existing_shared_resource(h, path) ==
    {r \in Values(shared_resources[h]) : r.path = path /\ r.owner = h}

(***************************************************************************)
(* Datagrams.  A broadcast reaches every host bound to the port, the       *)
(* sender included.  UDP may lose a datagram: of the datagrams an          *)
(* operation sends, any subset that fits the bound gets on the wire.       *)
(***************************************************************************)
Broadcast(pkt) == {[pkt EXCEPT !.dst = d] : d \in Hosts}

\* port is the port a datagram is sent to: a sender uses its own configured
\* port unless the operation says otherwise
AnnouncementTo(u, port) ==
    [type |-> "announcement", username |-> u, dst |-> u, port |-> port]
AnnouncementPkt(u) == AnnouncementTo(u, config[u].port)
DisconnectionPkt(u) ==
    [type |-> "disconnection", username |-> u, dst |-> u, port |-> config[u].port]
AnnounceTo(r, d, port) ==
    [type |-> "file_share", action |-> "announce", data |-> to_dict(r), dst |-> d,
     port |-> port]
AnnouncePkt(r, d) == AnnounceTo(r, d, config[r.owner].port)
AccessTo(action, rid, username, d, port) ==
    [type |-> "file_share", action |-> action,
     data |-> [resource_id |-> rid, username |-> username], dst |-> d,
     port |-> port]
\* update_resource_access sends to (peer.address, self.config.port); the
\* sender is the owner named in the resource id
AccessPkt(action, rid, username, d) ==
    AccessTo(action, rid, username, d, config[rid[1]].port)

\* a datagram for a host whose socket is closed, or for a port the host is
\* not bound to, goes nowhere
Transmit(wire, pkts) ==
    LET heard == {p \in pkts : running[p.dst] /\ p.port = config[p.dst].port} IN
    {n \in SUBSET (wire \cup heard) :
        wire \subseteq n /\ (n = wire \/ Cardinality(n) <= MaxNet)}

(***************************************************************************)
(* Catalog helpers                                                         *)
(***************************************************************************)
\* the place of a received resource's copy: share_dir / owner / basename(path)
resource_path(resource) == <<resource.owner, basename(resource.path)>>

\* the same place for the worker that downloads the record of this id
dest_path(rid) == <<rid[1], rid[3]>>

_remove_nothing(copies, resource) == copies

\* _remove_shared_resource: the copy is deleted when it exists
_remove_shared_resource(copies, resource) == copies \ {resource_path(resource)}

\* assign the three collections of host h and its copies on disk, and the
\* file when the code saves
SetCatalogAndCopies(h, shared, received, downloaded, save, copies) ==
    /\ shared_resources' = [shared_resources EXCEPT ![h] = shared]
    /\ received_resources' = [received_resources EXCEPT ![h] = received]
    /\ downloaded_resources' = [downloaded_resources EXCEPT ![h] = downloaded]
    /\ local_copy' = [local_copy EXCEPT ![h] = copies]
    /\ file' = IF save
               THEN [file EXCEPT ![h] = SavedCatalog(shared, received, downloaded)]
               ELSE file

\* the same when no copy is touched
SetCatalog(h, shared, received, downloaded, save) ==
    SetCatalogAndCopies(h, shared, received, downloaded, save, local_copy[h])

RECURSIVE RemoveAll(_, _)
\* _remove_shared_resource for each record of a set
RemoveAll(copies, resources) ==
    IF resources = {} THEN copies
    ELSE LET r == CHOOSE x \in resources : TRUE
         IN RemoveAll(_remove_shared_resource(copies, r), resources \ {r})

CatalogUnchanged ==
    UNCHANGED <<shared_resources, received_resources, downloaded_resources, file,
                local_copy>>

resources_to_remove_none(h, username) == {}

\* _cleanup_disconnected_peer_resources: the ids it removes
resources_to_remove(h, username) ==
    {rid \in DOMAIN received_resources[h] :
        received_resources[h][rid].owner = username}

\* _cleanup_disconnected_peer_resources as an action on host h's catalog
_cleanup_disconnected_peer_resources(h, username) ==
    LET gone == resources_to_remove(h, username) IN
    SetCatalogAndCopies(h,
               shared_resources[h],
               [rid \in (DOMAIN received_resources[h]) \ gone |->
                   received_resources[h][rid]],
               downloaded_resources[h] \ gone,
               gone # {},
               RemoveAll(local_copy[h], {received_resources[h][rid] : rid \in gone}))

\* _announce_resources_to_new_peer, the choice of the port: the port given
\* by the caller, else the stored port of a registry row, else the host's
\* own configured port; peer is the row of the new peer
target_port(h, peer, port) ==
    IF port # NoPort THEN port
    ELSE IF peer.registry_peer THEN peer.port
    ELSE config[h].port

_announce_all_resources_to_new_peer(h, username, port) ==
    {AnnounceTo(r, username, port) :
        r \in Values(shared_resources[h])}

\* _announce_resources_to_new_peer: the targeted datagrams, sent to port
_announce_resources_to_new_peer(h, username, port) ==
    {AnnounceTo(r, username, port) :
        r \in {o \in Values(shared_resources[h]) :
                 o.owner = h /\ (o.shared_to_all \/ username \in o.allowed_users)}}

(***************************************************************************)
(* Threads of one host that work on the peer table.  No lock guards the    *)
(* table: a handler that reads a row's flag and writes later holds the     *)
(* Peer object meanwhile.  detached says that the row of that object was   *)
(* deleted since: a write to the object then no longer reaches the table.  *)
(***************************************************************************)
Threads == {"listener", "refresh", "main"}

IdleThread ==
    [pc |-> "idle", todo |-> {}, username |-> "", flag |-> FALSE, detached |-> FALSE]

\* the threads of host h after the rows of the usernames in gone were deleted
Detached(h, gone) ==
    [thr EXCEPT ![h] =
        [x \in Threads |->
            IF thr[h][x].pc # "idle" /\ thr[h][x].username \in gone
            THEN [thr[h][x] EXCEPT !.detached = TRUE]
            ELSE thr[h][x]]]

(***************************************************************************)
(* Clock                                                                   *)
(***************************************************************************)
TickUntil(limit) ==
    /\ now < limit
    /\ now' = now + 1
    /\ last' = [op |-> "tick"]
    /\ UNCHANGED <<config, messages, handlers, consecutive_failures, running, peers, last_beacon, net, shared_resources,
                   received_resources, downloaded_resources, downloads, local_copy, file,
                   registered, known_registry_peers, srv_peers, thr>>

\* the clock advances by d seconds at once
Sleep(d, limit) ==
    /\ now + d <= limit
    /\ now' = now + d
    /\ last' = [op |-> "tick"]
    /\ UNCHANGED <<config, messages, handlers, consecutive_failures, running, peers, last_beacon, net, shared_resources,
                   received_resources, downloaded_resources, downloads, local_copy,
                   file, registered, known_registry_peers, srv_peers, thr>>

(***************************************************************************)
(* Broadcast discovery: beaconer and listener                              *)
(***************************************************************************)
\* one round of _broadcast_presence that leaves the datagrams wire in flight
_broadcast_presence(h, wire) ==
    /\ running[h]
    /\ net' = wire
    /\ last' = [op |-> "beacon", host |-> h]
    /\ UNCHANGED <<now, config, messages, handlers, consecutive_failures, running, peers, last_beacon, shared_resources,
                   received_resources, downloaded_resources, downloads, local_copy, file,
                   registered, known_registry_peers, srv_peers, thr>>

\* over a network that may lose datagrams
BroadcastPresence(h) ==
    \E wire \in Transmit(net, Broadcast(AnnouncementPkt(h))) :
        _broadcast_presence(h, wire)

\* over a network that loses nothing
BroadcastPresenceDelivered(h) ==
    _broadcast_presence(h, net \cup Broadcast(AnnouncementPkt(h)))

from_anyone(username, h) == TRUE

\* "if packet['username'] != self.username"
from_other(username, h) == username # h

\* _handle_announcement for the datagram p
_handle_announcement(h, p) ==
    /\ running[h]
    /\ thr[h]["listener"].pc = "idle"
    /\ p \in net
    /\  /\ p.dst = h /\ p.type = "announcement"
        /\ LET username == p.username
               is_new_peer == username \notin DOMAIN peers[h]
           IN
           IF from_other(username, h)
           THEN /\ peers' = [peers EXCEPT ![h] =
                      Put(peers[h], username,
                          IF is_new_peer
                          THEN NewBroadcastPeer(config[h].port, now)
                          ELSE UpdateBroadcastPeer(peers[h][username],
                                                   config[h].port, now))]
                /\ last_beacon' = [last_beacon EXCEPT ![h] = Put(@, username, now)]
                /\ net' \in Transmit(net \ {p},
                      IF is_new_peer
                      THEN _announce_resources_to_new_peer(h, username,
                              target_port(h, NewBroadcastPeer(config[h].port, now), NoPort))
                      ELSE {})
                /\ last' = [op |-> "announcement", host |-> h,
                            username |-> username, is_new_peer |-> is_new_peer,
                            sent |-> IF is_new_peer
                                     THEN _announce_resources_to_new_peer(h, username,
                                             target_port(h, NewBroadcastPeer(config[h].port, now), NoPort))
                                     ELSE {}]
           ELSE /\ net' = net \ {p}
                /\ last' = [op |-> "announcement", host |-> h,
                            username |-> username, is_new_peer |-> FALSE,
                            sent |-> {}]
                /\ UNCHANGED <<peers, last_beacon>>
    /\ UNCHANGED <<now, config, messages, handlers, consecutive_failures, running, shared_resources, received_resources,
                   downloaded_resources, downloads, local_copy, file, registered,
                   known_registry_peers, srv_peers, thr>>

\* the listener takes an announcement from its socket
HandleAnnouncement(h) == \E p \in net : _handle_announcement(h, p)

\* _handle_disconnection
HandleDisconnection(h) ==
    /\ running[h]
    /\ thr[h]["listener"].pc = "idle"
    /\ \E p \in net :
        /\ p.dst = h /\ p.type = "disconnection"
        /\ net' = net \ {p}
        /\ LET username == p.username IN
           /\ last' = [op |-> "disconnection", host |-> h, username |-> username]
           /\ IF username # h /\ username \in DOMAIN peers[h]
              THEN IF peers[h][username].registry_peer
                   THEN /\ peers' = [peers EXCEPT ![h][username].broadcast_peer = FALSE]
                        /\ CatalogUnchanged
                   ELSE /\ peers' = [peers EXCEPT ![h] = Del(@, username)]
                        /\ _cleanup_disconnected_peer_resources(h, username)
              ELSE /\ UNCHANGED peers
                   /\ CatalogUnchanged
    /\ UNCHANGED <<now, config, messages, handlers, consecutive_failures, running, last_beacon, downloads, registered,
                   known_registry_peers, srv_peers, thr>>

(***************************************************************************)
(* list_peers: the lazy timeout sweep                                      *)
(***************************************************************************)
\* the row after the sweep looked at it
SweepRow(peer, t) ==
    IF peer.broadcast_peer /\ ~SignalActive(peer, t)
    THEN [peer EXCEPT !.broadcast_peer = FALSE]
    ELSE peer

\* keep_peer
keep_peer(peer, t) ==
    \/ peer.broadcast_peer /\ SignalActive(peer, t)
    \/ peer.registry_peer

\* active_peers, the mapping list_peers returns
active_peers(table, t) ==
    [u \in {x \in DOMAIN table : keep_peer(table[x], t)} |-> SweepRow(table[u], t)]

list_peers(h) ==
    /\ running[h]
    /\ peers' = [peers EXCEPT ![h] = active_peers(peers[h], now)]
    /\ thr' = Detached(h, (DOMAIN peers[h]) \ (DOMAIN active_peers(peers[h], now)))
    \* the mapping returned holds the rows that stay
    /\ last' = [op |-> "list_peers", host |-> h, before |-> peers[h]]
    /\ UNCHANGED <<now, config, messages, handlers, consecutive_failures, running, last_beacon, net, shared_resources,
                   received_resources, downloaded_resources, downloads, local_copy, file,
                   registered, known_registry_peers, srv_peers>>

(***************************************************************************)
(* Resource catalog: user actions of the owner                             *)
(***************************************************************************)
\* _announce_resource: one broadcast
_announce_resource(r) == Broadcast(AnnouncePkt(r, r.owner))

exists_anyway(path) == TRUE

\* os.path.exists
exists(path) == path \in ExistingPaths

share_resource(h, path, share_to_all) ==
    /\ running[h]
    /\ LET existing_resource == _find_existing_shared_resource(h, path)
           resource == SharedResource(h, path, isdir(path), share_to_all,
                                      default_password, now)
       IN
       IF ~exists(path)
       THEN /\ last' = [op |-> "share", host |-> h, path |-> path, ret |-> {},
                        share_to_all |-> share_to_all, created |-> FALSE]
            /\ UNCHANGED net
            /\ CatalogUnchanged
       ELSE IF existing_resource # {}
       THEN /\ last' = [op |-> "share", host |-> h, path |-> path,
                        ret |-> {r.id : r \in existing_resource},
                        share_to_all |-> share_to_all, created |-> FALSE]
            /\ UNCHANGED net
            /\ CatalogUnchanged
       ELSE /\ SetCatalog(h, Put(shared_resources[h], resource.id, resource),
                          received_resources[h], downloaded_resources[h], TRUE)
            /\ net' \in Transmit(net, _announce_resource(resource))
            /\ last' = [op |-> "share", host |-> h, path |-> path,
                        ret |-> {resource.id},
                        share_to_all |-> share_to_all, created |-> TRUE]
    /\ UNCHANGED <<now, config, messages, handlers, consecutive_failures, running, peers, last_beacon, downloads, registered,
                   known_registry_peers, srv_peers, thr>>

update_resource_access(h, resource_id, username, add) ==
    /\ running[h]
    /\ IF resource_id \notin DOMAIN shared_resources[h]
          \/ shared_resources[h][resource_id].owner # h
       THEN /\ last' = [op |-> "update_access", host |-> h,
                        resource_id |-> resource_id, username |-> username,
                        add |-> add, ret |-> FALSE, had |-> FALSE,
                        sent |-> {}]
            /\ UNCHANGED net
            /\ CatalogUnchanged
       ELSE LET resource == IF add
                            THEN add_user(shared_resources[h][resource_id], username)
                            ELSE remove_user(shared_resources[h][resource_id], username)
                action == IF add THEN "add_access" ELSE "remove_access"
                sent == IF username \in DOMAIN peers[h]
                        THEN {AccessPkt(action, resource_id, username, username)}
                             \cup (IF add THEN _announce_resource(resource) ELSE {})
                        ELSE {}
            IN
            /\ SetCatalog(h, Put(shared_resources[h], resource_id, resource),
                          received_resources[h], downloaded_resources[h], TRUE)
            /\ net' \in Transmit(net, sent)
            /\ last' = [op |-> "update_access", host |-> h,
                        resource_id |-> resource_id, username |-> username,
                        add |-> add, ret |-> TRUE,
                        had |-> username \in shared_resources[h][resource_id].allowed_users,
                        sent |-> sent]
    /\ UNCHANGED <<now, config, messages, handlers, consecutive_failures, running, peers, last_beacon, downloads, registered,
                   known_registry_peers, srv_peers, thr>>

set_share_to_all(h, resource_id, share_to_all) ==
    /\ running[h]
    /\ IF resource_id \notin DOMAIN shared_resources[h]
          \/ shared_resources[h][resource_id].owner # h
       THEN /\ last' = [op |-> "set_share_to_all", host |-> h,
                        resource_id |-> resource_id, ret |-> FALSE]
            /\ UNCHANGED net
            /\ CatalogUnchanged
       ELSE LET resource == [shared_resources[h][resource_id]
                                EXCEPT !.shared_to_all = share_to_all]
            IN
            /\ SetCatalog(h, Put(shared_resources[h], resource_id, resource),
                          received_resources[h], downloaded_resources[h], TRUE)
            /\ net' \in Transmit(net, _announce_resource(resource))
            /\ last' = [op |-> "set_share_to_all", host |-> h,
                        resource_id |-> resource_id, ret |-> TRUE]
    /\ UNCHANGED <<now, config, messages, handlers, consecutive_failures, running, peers, last_beacon, downloads, registered,
                   known_registry_peers, srv_peers, thr>>

(***************************************************************************)
(* Resource catalog: inbound file_share datagrams                          *)
(***************************************************************************)
owner_is_never_self(resource, h) == FALSE

\* "Skip if we're the owner"
owner_is_self(resource, h) == resource.owner = h

\* the announced record is taken as updated whatever its modification time
modified_at_all(resource, existing_resource) == TRUE

\* the announced record carries a later modification time than the held one
modified_later(resource, existing_resource) ==
    resource.modified_time > existing_resource.modified_time

_handle_resource_announcement(h) ==
    /\ running[h]
    /\ thr[h]["listener"].pc = "idle"
    /\ \E p \in net :
        /\ p.dst = h /\ p.type = "file_share" /\ p.action = "announce"
        /\ net' = net \ {p}
        /\ LET resource == from_dict(p.data)
               rid == resource.id
               has == rid \in DOMAIN received_resources[h]
           IN
           /\ last' = [op |-> "announce", host |-> h, resource |-> resource,
                       has |-> has]
           /\ IF owner_is_self(resource, h)
              THEN CatalogUnchanged /\ UNCHANGED downloads
              ELSE IF has /\ ~can_access(resource, h)
              THEN \* access revoked
                   /\ SetCatalogAndCopies(h, shared_resources[h],
                         Del(received_resources[h], rid),
                         downloaded_resources[h] \ {rid}, TRUE,
                         _remove_shared_resource(local_copy[h],
                                                 received_resources[h][rid]))
                   /\ UNCHANGED downloads
              ELSE IF ~can_access(resource, h)
              THEN CatalogUnchanged /\ UNCHANGED downloads
              ELSE IF has
              THEN IF modified_later(resource, received_resources[h][rid])
                   THEN \* updated: stored and saved, then taken out of downloaded
                        /\ shared_resources' = shared_resources
                        /\ received_resources' =
                              [received_resources EXCEPT ![h] = Put(@, rid, resource)]
                        /\ file' = [file EXCEPT ![h] =
                              SavedCatalog(shared_resources[h],
                                           Put(received_resources[h], rid, resource),
                                           downloaded_resources[h])]
                        /\ downloaded_resources' =
                              [downloaded_resources EXCEPT ![h] = @ \ {rid}]
                        /\ downloads' = [downloads EXCEPT ![h] = @ \cup {rid}]
                        /\ UNCHANGED local_copy
                   ELSE CatalogUnchanged /\ UNCHANGED downloads
              ELSE \* new resource
                   /\ SetCatalog(h, shared_resources[h],
                                 Put(received_resources[h], rid, resource),
                                 downloaded_resources[h], TRUE)
                   /\ downloads' = IF rid \notin downloaded_resources[h]
                                   THEN [downloads EXCEPT ![h] = @ \cup {rid}]
                                   ELSE downloads
    /\ UNCHANGED <<now, config, messages, handlers, consecutive_failures, running, peers, last_beacon, registered,
                   known_registry_peers, srv_peers, thr>>

\* the owned records are walked first, then the received ones
_handle_access_update(h) ==
    /\ running[h]
    /\ thr[h]["listener"].pc = "idle"
    /\ \E p \in net :
        /\ p.dst = h /\ p.type = "file_share"
        /\ p.action \in {"add_access", "remove_access"}
        /\ net' = net \ {p}
        /\ LET add == p.action = "add_access"
               rid == p.data.resource_id
               username == p.data.username
               inS == rid \in DOMAIN shared_resources[h]
               inR == rid \in DOMAIN received_resources[h]
               edit(r) == IF add THEN add_user(r, username) ELSE remove_user(r, username)
               shared == IF inS
                         THEN Put(shared_resources[h], rid, edit(shared_resources[h][rid]))
                         ELSE shared_resources[h]
               rec == received_resources[h][rid]
               received == IF ~inR THEN received_resources[h]
                           ELSE IF ~add /\ rec.owner # h /\ ~rec.shared_to_all
                           THEN Del(received_resources[h], rid)
                           ELSE Put(received_resources[h], rid, edit(rec))
               downloaded == IF inR /\ ~add /\ rec.owner # h
                             THEN downloaded_resources[h] \ {rid}
                             ELSE downloaded_resources[h]
               copies == IF inR /\ ~add /\ rec.owner # h
                         THEN _remove_shared_resource(local_copy[h], rec)
                         ELSE local_copy[h]
               start == /\ inR /\ add /\ rec.owner # h
                        /\ rid \notin downloaded_resources[h]
                        /\ rec.owner \in DOMAIN peers[h]
           IN
           /\ last' = [op |-> "access_update", host |-> h, add |-> add,
                       resource_id |-> rid, username |-> username,
                       had_copy |-> IF inR THEN resource_path(rec) \in local_copy[h]
                                    ELSE FALSE]
           /\ IF username # h
              THEN CatalogUnchanged /\ UNCHANGED downloads
              ELSE /\ SetCatalogAndCopies(h, shared, received, downloaded,
                                          inS \/ inR, copies)
                   /\ downloads' = IF start
                                   THEN [downloads EXCEPT ![h] = @ \cup {rid}]
                                   ELSE downloads
    /\ UNCHANGED <<now, config, messages, handlers, consecutive_failures, running, peers, last_beacon, registered,
                   known_registry_peers, srv_peers, thr>>

\* a download worker runs to its end.  It deletes the old copy of a record
\* that is held, fetches the file, and on success marks the id and saves; a
\* failed transfer leaves no copy with content
_download_resource(h, rid, ok) ==
    /\ running[h]
    /\ rid \in downloads[h]
    /\ downloads' = [downloads EXCEPT ![h] = @ \ {rid}]
    /\ IF ok
       THEN SetCatalogAndCopies(h, shared_resources[h], received_resources[h],
                                downloaded_resources[h] \cup {rid}, TRUE,
                                local_copy[h] \cup {dest_path(rid)})
       ELSE SetCatalogAndCopies(h, shared_resources[h], received_resources[h],
                                downloaded_resources[h], FALSE,
                                IF rid \in DOMAIN received_resources[h]
                                THEN local_copy[h] \ {dest_path(rid)}
                                ELSE local_copy[h])
    /\ last' = [op |-> "download", host |-> h, resource_id |-> rid, ok |-> ok]
    /\ UNCHANGED <<now, config, messages, handlers, consecutive_failures, running, peers, last_beacon, net, registered,
                   known_registry_peers, srv_peers, thr>>

(***************************************************************************)
(* Rendezvous server (src/registry.py): peers is username -> last_seen     *)
(***************************************************************************)
\* get_peers: the entries that are not stale; the others are deleted
get_peers_inclusive(server, t) ==
    [u \in {x \in DOMAIN server : ~(t - server[x].last_seen >= StaleAfter)} |-> server[u]]

get_peers(server, t) ==
    [u \in {x \in DOMAIN server : ~(t - server[x].last_seen > StaleAfter)} |-> server[u]]

(***************************************************************************)
(* Registry client (core/registry.py), each call taken as one step         *)
(***************************************************************************)
register(h, ok) ==
    /\ running[h]
    /\ ~registered[h]
    /\ IF ok
       THEN /\ srv_peers' = Put(srv_peers, h, [last_seen |-> now,
                                                port |-> config[h].port])
            /\ registered' = [registered EXCEPT ![h] = TRUE]
            /\ known_registry_peers' = [known_registry_peers EXCEPT ![h] = {}]
            \* the refresh thread starts with "consecutive_failures = 0"
            /\ consecutive_failures' = [consecutive_failures EXCEPT ![h] = 0]
       ELSE UNCHANGED <<srv_peers, registered, known_registry_peers,
                        consecutive_failures>>
    /\ last' = [op |-> "register", host |-> h, ret |-> ok]
    /\ UNCHANGED <<now, config, messages, handlers, running, peers, last_beacon, net, shared_resources,
                   received_resources, downloaded_resources, downloads, local_copy, file, thr>>

_cleanup_nothing(table) == table

\* _cleanup_registry_peers on one table
_cleanup_registry_peers(table) ==
    LET peers_to_remove == {u \in DOMAIN table :
                               table[u].registry_peer /\ ~table[u].broadcast_peer}
    IN [u \in (DOMAIN table) \ peers_to_remove |->
           IF table[u].registry_peer
           THEN [table[u] EXCEPT !.registry_peer = FALSE]
           ELSE table[u]]

\* POST /unregister: "ok" is a 200, "non200" an error status, "transport" a
\* request that never reached the server
Responses == {"ok", "non200", "transport"}

\* unregister joins the refresh thread before it posts
unregister(h, resp) ==
    /\ running[h]
    /\ registered[h]
    /\ thr[h]["refresh"].pc = "idle"
    /\ srv_peers' = IF resp = "ok" THEN Del(srv_peers, h) ELSE srv_peers
    /\ peers' = [peers EXCEPT ![h] = _cleanup_registry_peers(peers[h])]
    /\ thr' = Detached(h, (DOMAIN peers[h]) \ (DOMAIN _cleanup_registry_peers(peers[h])))
    /\ registered' = [registered EXCEPT ![h] = FALSE]
    /\ known_registry_peers' = [known_registry_peers EXCEPT ![h] = {}]
    /\ last' = [op |-> "unregister", host |-> h, resp |-> resp,
                ret |-> (resp = "ok"), before |-> peers[h]]
    /\ UNCHANGED <<now, config, messages, handlers, consecutive_failures, running, last_beacon, net, shared_resources,
                   received_resources, downloaded_resources, downloads, local_copy, file>>

\* _process_registry_peer on one table
_process_registry_peer(table, username, port, t) ==
    IF username \notin DOMAIN table
    THEN Put(table, username, NewRegistryPeer(port, t))
    ELSE Put(table, username, UpdateRegistryPeer(table[username], port, t))

\* the loop over the peers of the response peer_data
RECURSIVE ProcessAll(_, _, _, _)
ProcessAll(table, peer_data, usernames, t) ==
    IF usernames = {} THEN table
    ELSE LET u == CHOOSE x \in usernames : TRUE
         IN ProcessAll(_process_registry_peer(table, u, peer_data[u].port, t),
                       peer_data, usernames \ {u}, t)

disappeared_none(known, seen) == {}

\* _check_disappeared_peers on one table: the usernames it handles
disappeared(known, seen) == known \ seen

\* _check_disappeared_peers on one table
_check_disappeared_peers(table, gone) ==
    [u \in {x \in DOMAIN table : ~(x \in gone /\ ~table[x].broadcast_peer)} |->
        IF u \in gone
        THEN [table[u] EXCEPT !.registry_peer = FALSE]
        ELSE table[u]]

\* where the count of failed polls is of no interest a poll fails only after
\* one that succeeded
AtMostOneFailure(h, resp) == resp = "ok" \/ consecutive_failures[h] = 0

status_code_ignored(resp) == TRUE

\* "if response.status_code == 200": a transport error or a timeout raised
\* before there was a response
status_code_200(resp) == resp = "ok"

\* "if consecutive_failures > 5": the connection is taken as lost
connection_lost(h) == consecutive_failures[h] > FailureLimit

\* refresh_peers from the response of GET /peers to the end of the round
refresh_round(h, resp) ==
       IF status_code_200(resp)
       THEN LET peer_data == get_peers(srv_peers, now)
                seen == (DOMAIN peer_data) \ {h}
                new == seen \ DOMAIN peers[h]
                processed == ProcessAll(peers[h], peer_data, seen, now)
                gone == disappeared(known_registry_peers[h] \cup seen, seen)
                purged == gone \cap DOMAIN processed
                dead == UNION {resources_to_remove(h, u) : u \in purged}
            IN
            /\ srv_peers' = peer_data
            /\ peers' = [peers EXCEPT ![h] = _check_disappeared_peers(processed, gone)]
            /\ known_registry_peers' = [known_registry_peers EXCEPT ![h] = seen]
            /\ SetCatalogAndCopies(h, shared_resources[h],
                  [rid \in (DOMAIN received_resources[h]) \ dead |->
                      received_resources[h][rid]],
                  downloaded_resources[h] \ dead,
                  dead # {},
                  RemoveAll(local_copy[h],
                            {received_resources[h][rid] : rid \in dead}))
            /\ net' \in Transmit(net,
                  UNION {_announce_resources_to_new_peer(h, u, peer_data[u].port) :
                            u \in new})
            /\ consecutive_failures' = [consecutive_failures EXCEPT ![h] = 0]
            /\ last' = [op |-> "refresh", host |-> h, ret |-> TRUE,
                        seen |-> seen, gone |-> gone,
                        response |-> DOMAIN peer_data, resp |-> resp,
                        sent |-> UNION {_announce_resources_to_new_peer(h, u,
                                                        peer_data[u].port) :
                                           u \in new}]
       ELSE /\ consecutive_failures[h] < MaxFailures
            /\ consecutive_failures' = [consecutive_failures EXCEPT ![h] = @ + 1]
            /\ last' = [op |-> "refresh", host |-> h, ret |-> FALSE,
                        seen |-> {}, gone |-> {}, response |-> {}, resp |-> resp,
                        sent |-> {}]
            /\ UNCHANGED <<srv_peers, peers, known_registry_peers, net>>
            /\ CatalogUnchanged

\* one round of refresh_peers
refresh_peers(h, resp) ==
    /\ running[h]
    /\ registered[h]
    /\ thr[h]["refresh"].pc = "idle"
    /\ refresh_round(h, resp)
    /\ UNCHANGED <<now, config, messages, handlers, running, last_beacon, downloads, registered, thr>>

\* one round of send_heartbeats, with the server's heartbeat()
send_heartbeats(h, ok) ==
    /\ running[h]
    /\ registered[h]
    /\ srv_peers' = IF ok /\ h \in DOMAIN srv_peers
                    THEN [srv_peers EXCEPT ![h].last_seen = now]
                    ELSE srv_peers
    /\ last' = [op |-> "heartbeat", host |-> h, ret |-> ok]
    /\ UNCHANGED <<now, config, messages, handlers, consecutive_failures, running, peers, last_beacon, net, shared_resources,
                   received_resources, downloaded_resources, downloads, local_copy, file,
                   registered, known_registry_peers, thr>>

(***************************************************************************)
(* Shutdown: UDPPeerDiscovery.cleanup                                      *)
(***************************************************************************)
cleanup(h, resp) ==
    /\ running[h]
    /\ srv_peers' = IF registered[h] /\ resp = "ok"
                    THEN Del(srv_peers, h) ELSE srv_peers
    /\ peers' = IF registered[h]
                THEN [peers EXCEPT ![h] = _cleanup_registry_peers(peers[h])]
                ELSE peers
    /\ registered' = [registered EXCEPT ![h] = FALSE]
    /\ known_registry_peers' = [known_registry_peers EXCEPT ![h] = {}]
    /\ running' = [running EXCEPT ![h] = FALSE]
    \* the socket is closed: what was on its way to h is gone
    /\ net' \in Transmit({p \in net : p.dst # h},
                         {p \in Broadcast(DisconnectionPkt(h)) : p.dst # h})
    /\ file' = [file EXCEPT ![h] =
          SavedCatalog(shared_resources[h], received_resources[h],
                       downloaded_resources[h])]
    /\ last' = [op |-> "cleanup", host |-> h, resp |-> resp]
    /\ UNCHANGED <<now, config, messages, handlers, consecutive_failures, last_beacon, shared_resources, received_resources,
                   downloaded_resources, downloads, local_copy, thr>>

(***************************************************************************)
(* The system, every handler one step                                      *)
(***************************************************************************)
EmptyCatalog == [shared |-> {}, received |-> {}, downloaded |-> {}]

\* the requests the rendezvous server handles at once, one thread each
Slots == {"r1", "r2"}
IdleHandler == [pc |-> "idle", op |-> "none", username |-> "none",
                body |-> {}, keys |-> {}, current_time |-> 0]

Init ==
    /\ now = 0
    /\ running = [h \in Hosts |-> TRUE]
    /\ peers = [h \in Hosts |-> EmptyDict]
    /\ last_beacon = [h \in Hosts |-> EmptyDict]
    /\ net = {}
    /\ shared_resources = [h \in Hosts |-> EmptyDict]
    /\ received_resources = [h \in Hosts |-> EmptyDict]
    /\ downloaded_resources = [h \in Hosts |-> {}]
    /\ downloads = [h \in Hosts |-> {}]
    /\ local_copy = [h \in Hosts |-> {}]
    /\ file = [h \in Hosts |-> EmptyCatalog]
    /\ registered = [h \in Hosts |-> FALSE]
    /\ known_registry_peers = [h \in Hosts |-> {}]
    /\ srv_peers = EmptyDict
    /\ thr = [h \in Hosts |-> [x \in Threads |-> IdleThread]]
    /\ last = [op |-> "init"]
    /\ consecutive_failures = [h \in Hosts |-> 0]
    /\ config = [h \in Hosts |-> [port |-> DefaultPort]]
    /\ messages = [h \in Hosts |-> <<>>]
    /\ handlers = [slot \in Slots |-> IdleHandler]

\* the resource ids a host can name in a call
KnownIds(h) == (DOMAIN shared_resources[h]) \cup (DOMAIN received_resources[h])

Tick == TickUntil(MaxTime)

Next ==
    \/ Tick
    \/ \E h \in Hosts : BroadcastPresence(h)
    \/ \E h \in Hosts : HandleAnnouncement(h)
    \/ \E h \in Hosts : HandleDisconnection(h)
    \/ \E h \in Hosts : list_peers(h)
    \/ \E h \in Hosts, path \in Paths, all \in BOOLEAN : share_resource(h, path, all)
    \/ \E h \in Hosts, u \in Users, add \in BOOLEAN :
          \E rid \in KnownIds(h) : update_resource_access(h, rid, u, add)
    \/ \E h \in Hosts, all \in BOOLEAN :
          \E rid \in KnownIds(h) : set_share_to_all(h, rid, all)
    \/ \E h \in Hosts : _handle_resource_announcement(h)
    \/ \E h \in Hosts : _handle_access_update(h)
    \/ \E h \in Hosts, ok \in BOOLEAN :
          \E rid \in downloads[h] : _download_resource(h, rid, ok)
    \/ \E h \in Hosts, ok \in BOOLEAN : register(h, ok)
    \/ \E h \in Hosts, resp \in Responses : unregister(h, resp)
    \/ \E h \in Hosts, resp \in {"ok", "fail"} :
          AtMostOneFailure(h, resp) /\ refresh_peers(h, resp)
    \/ \E h \in Hosts, ok \in BOOLEAN : send_heartbeats(h, ok)
    \/ \E h \in Hosts, resp \in Responses : cleanup(h, resp)

Spec == Init /\ [][Next]_vars

(***************************************************************************)
(* The catalog protocol for one shared path: the owner edits the ACL, the  *)
(* other host follows the datagrams, and the owner may shut down.  No      *)
(* timeouts, no rendezvous server.                                         *)
(***************************************************************************)
NextCatalog ==
    \/ \E h \in Hosts : BroadcastPresence(h)
    \/ \E h \in Hosts : HandleAnnouncement(h)
    \/ \E h \in Sharers, path \in OnePath, all \in BOOLEAN : share_resource(h, path, all)
    \/ \E h \in Hosts, u \in Watchers, add \in BOOLEAN :
          \E rid \in KnownIds(h) : update_resource_access(h, rid, u, add)
    \/ \E h \in Hosts : _handle_resource_announcement(h)
    \/ \E h \in Hosts : _handle_access_update(h)
    \/ \E h \in Hosts, ok \in BOOLEAN :
          \E rid \in downloads[h] : _download_resource(h, rid, ok)

    \/ \E h \in Watchers : HandleDisconnection(h)
    \/ \E h \in Watched : cleanup(h, "ok")

SpecCatalog == Init /\ [][NextCatalog]_vars

(***************************************************************************)
(* The peer table of the watching host, fed by both discovery axes; no     *)
(* resources are shared                                                    *)
(***************************************************************************)
NextTable ==
    \/ Tick
    \/ \E h \in Watched : BroadcastPresence(h)
    \/ \E h \in Hosts : HandleAnnouncement(h)
    \/ \E h \in Watchers : HandleDisconnection(h)
    \/ \E h \in Watchers : list_peers(h)
    \/ \E h \in Hosts, ok \in BOOLEAN : register(h, ok)
    \/ \E h \in Hosts, resp \in Responses : unregister(h, resp)
    \/ \E h \in Watchers, resp \in {"ok", "fail"} :
          AtMostOneFailure(h, resp) /\ refresh_peers(h, resp)
    \/ \E h \in Watched, resp \in Responses : cleanup(h, resp)

SpecTable == Init /\ [][NextTable]_vars

(***************************************************************************)
(* Properties of the peer table                                            *)
(***************************************************************************)
\* seconds since host h last processed a broadcast beacon of u
BeaconAge(h, u) == now - last_beacon[h][u]

\* C6: list_peers and a broadcast-only row (registry_peer false when the call
\* starts): a last beacon older than peer_timeout means the row is gone from the
\* returned mapping and the table; a last beacon at most peer_timeout old means
\* the row is returned with broadcast_peer true.
C6_BroadcastOnlySweep ==
    last.op = "list_peers" =>
        \A u \in DOMAIN last.before :
            (~last.before[u].registry_peer /\ u \in DOMAIN last_beacon[last.host]) =>
                IF BeaconAge(last.host, u) > peer_timeout
                THEN u \notin DOMAIN peers[last.host]
                ELSE /\ u \in DOMAIN peers[last.host]
                     /\ peers[last.host][u].broadcast_peer

\* C7: list_peers and a row attested on both axes whose last beacon is older
\* than peer_timeout: the row stays, with broadcast_peer false and
\* registry_peer true, however recently the registry poll listed it.
C7_DualSweep ==
    last.op = "list_peers" =>
        \A u \in DOMAIN last.before :
            (/\ last.before[u].registry_peer
             /\ last.before[u].broadcast_peer
             /\ u \in DOMAIN last_beacon[last.host]
             /\ BeaconAge(last.host, u) > peer_timeout) =>
                /\ u \in DOMAIN peers[last.host]
                /\ ~peers[last.host][u].broadcast_peer
                /\ peers[last.host][u].registry_peer

\* C8: the axes merge by username.  A successful registry poll leaves every
\* row it lists with registry_peer true and broadcast_peer as it was; a
\* broadcast announcement for an existing row leaves it with broadcast_peer
\* true and registry_peer as it was.  A row known by broadcast and listed by
\* the poll so has both flags.
C8_AxesMerge ==
    [][/\ (last'.op = "refresh" /\ last'.ret) =>
            \A u \in last'.seen \cap DOMAIN peers[last'.host] :
                /\ u \in DOMAIN peers'[last'.host]
                /\ peers'[last'.host][u].registry_peer
                /\ peers'[last'.host][u].broadcast_peer
                      = peers[last'.host][u].broadcast_peer
       /\ (/\ last'.op = "announcement"
           /\ last'.username # last'.host
           /\ last'.username \in DOMAIN peers[last'.host]) =>
                /\ peers'[last'.host][last'.username].broadcast_peer
                /\ peers'[last'.host][last'.username].registry_peer
                      = peers[last'.host][last'.username].registry_peer
      ]_vars

\* a poll has just listed a peer that was known by broadcast
C8_Witness ==
    /\ last.op = "refresh" /\ last.ret
    /\ \E u \in last.seen :
          /\ peers[last.host][u].broadcast_peer
          /\ peers[last.host][u].registry_peer

(***************************************************************************)
(* Sharing paths: two paths of the same basename, the clock, and the       *)
(* other host following the announcements.  No ACL is edited.              *)
(***************************************************************************)
NextShare ==
    \/ TickUntil(MaxSec)
    \/ \E h \in Sharers, path \in Paths, all \in BOOLEAN : share_resource(h, path, all)
    \/ \E h \in Hosts : _handle_resource_announcement(h)
    \/ \E h \in Hosts, ok \in BOOLEAN :
          \E rid \in downloads[h] : _download_resource(h, rid, ok)

SpecShare == Init /\ [][NextShare]_vars

(***************************************************************************)
(* Properties of the catalog                                               *)
(***************************************************************************)
\* C3: on every host no resource id is a key of both the owned and the
\* received map, every owned record has the host as owner and no received
\* record has; and processing an announcement whose owner is the host itself
\* leaves the three collections, the file and the download workers as they were.
C3_OwnedReceivedDisjoint ==
    /\ [](\A h \in Hosts :
            /\ (DOMAIN shared_resources[h]) \cap (DOMAIN received_resources[h]) = {}
            /\ \A r \in Values(shared_resources[h]) : r.owner = h
            /\ \A r \in Values(received_resources[h]) : r.owner # h)
    /\ [][(last'.op = "announce" /\ last'.resource.owner = last'.host) =>
             UNCHANGED <<shared_resources, received_resources,
                         downloaded_resources, downloads, local_copy, file>>]_vars

\* the owner has just processed its own announcement while the other host
\* holds the record as received
C3_Witness ==
    /\ last.op = "announce" /\ last.resource.owner = last.host
    /\ last.resource.id \in DOMAIN shared_resources[last.host]
    /\ \E h \in Hosts \ {last.host} : last.resource.id \in DOMAIN received_resources[h]

\* C4: after update_resource_access(r, u, add = false) succeeded on the owner,
\* the persisted file holds a record for r and its allowed_users lacks u, be u
\* in the owner's peer table or not.
C4_RevokedInFile ==
    (last.op = "update_access" /\ last.ret /\ ~last.add) =>
        /\ \E d \in file[last.host].shared : d.id = last.resource_id
        /\ \A d \in file[last.host].shared :
              d.id = last.resource_id =>
                  last.username \notin SeqToSet(d.allowed_users)

\* a user that was in the ACL and is not in the owner's peer table was removed
C4_Witness ==
    /\ last.op = "update_access" /\ last.ret /\ ~last.add /\ last.had
    /\ last.username \notin DOMAIN peers[last.host]

C12_RevokeRemoves ==
    [][(/\ last'.op = "access_update" /\ ~last'.add
        /\ last'.username = last'.host
        /\ last'.resource_id \in DOMAIN received_resources[last'.host]
        /\ ~received_resources[last'.host][last'.resource_id].shared_to_all) =>
            /\ last'.resource_id \notin DOMAIN received_resources'[last'.host]
            /\ last'.resource_id \notin downloaded_resources'[last'.host]
            /\ resource_path(received_resources[last'.host][last'.resource_id])
                  \notin local_copy'[last'.host]
      ]_vars

\* a revocation has just taken away a record whose copy was on disk
C12_Witness ==
    /\ last.op = "access_update" /\ ~last.add /\ last.username = last.host
    /\ last.had_copy
    /\ last.resource_id \notin DOMAIN received_resources[last.host]
    /\ dest_path(last.resource_id) \notin local_copy[last.host]
    /\ \E h \in Hosts \ {last.host} :
          /\ last.resource_id \in DOMAIN shared_resources[h]
          /\ last.host \notin shared_resources[h][last.resource_id].allowed_users

\* an announcement of a record the host does not hold, of another owner, that
\* grants the host access, has just been processed
NewAnnounceStep ==
    /\ last'.op = "announce"
    /\ last'.resource.owner # last'.host
    /\ last'.resource.id \notin DOMAIN received_resources[last'.host]
    /\ \/ last'.host \in last'.resource.allowed_users
       \/ last'.resource.shared_to_all

\* the record is stored and the file written, and the peer table is neither
\* read nor written
NewAnnounceStored ==
    /\ received_resources'[last'.host] =
          Put(received_resources[last'.host], last'.resource.id, last'.resource)
    /\ {from_dict(d) : d \in file'[last'.host].received} =
          Values(received_resources'[last'.host])
    /\ peers' = peers

C10_PrivateShare ==
    [][/\ (last'.op = "share" /\ last'.created /\ ~last'.share_to_all) =>
            Cardinality(DOMAIN shared_resources'[last'.host])
                = Cardinality(DOMAIN shared_resources[last'.host]) + 1
       /\ (/\ last'.op = "announce"
           /\ last'.resource.owner # last'.host
           /\ ~last'.resource.shared_to_all
           /\ last'.resource.allowed_users = {}) =>
            /\ received_resources'[last'.host] = received_resources[last'.host]
            /\ downloaded_resources'[last'.host] = downloaded_resources[last'.host]
      ]_vars

(***************************************************************************)
(* The peer table and the received catalog together: the watched host      *)
(* shares one path with everybody, the watching host receives it and       *)
(* loses the peer's row on each of the deletion paths.                     *)
(***************************************************************************)
NextPurge ==
    \/ Tick
    \/ \E h \in Watched : BroadcastPresence(h)
    \/ \E h \in Hosts : HandleAnnouncement(h)
    \/ \E h \in Sharers, path \in OnePath : share_resource(h, path, TRUE)
    \/ \E h \in Hosts : _handle_resource_announcement(h)
    \/ \E h \in Watchers : \E rid \in downloads[h] : _download_resource(h, rid, TRUE)
    \/ \E h \in Watchers : HandleDisconnection(h)
    \/ \E h \in Watchers : list_peers(h)
    \/ \E h \in Hosts : register(h, TRUE)
    \/ \E h \in Watchers : unregister(h, "ok")
    \/ \E h \in Watchers : refresh_peers(h, "ok")
    \/ \E h \in Watched : cleanup(h, "ok")

SpecPurge == Init /\ [][NextPurge]_vars

\* C2: whenever a step deletes the row of username u from a host's peer
\* table, the host's received map holds no record owned by u after the step.
C2_PurgeOnDeletion ==
    [][\A h \in Hosts : \A u \in (DOMAIN peers[h]) \ (DOMAIN peers'[h]) :
          \A r \in Values(received_resources'[h]) : r.owner # u]_vars

(***************************************************************************)
(* The handlers of the listener and the refresh thread statement by        *)
(* statement: each reads a flag of the row, and writes in a later step.    *)
(* list_peers and unregister run on the main thread between those steps.   *)
(***************************************************************************)
\* _handle_disconnection up to the test of peer.registry_peer
_handle_disconnection_read(h) ==
    /\ running[h]
    /\ thr[h]["listener"].pc = "idle"
    /\ \E p \in net :
        /\ p.dst = h /\ p.type = "disconnection"
        /\ net' = net \ {p}
        /\ thr' = IF p.username # h /\ p.username \in DOMAIN peers[h]
                  THEN [thr EXCEPT ![h]["listener"] =
                          [pc |-> "disconnection", todo |-> {},
                           username |-> p.username,
                           flag |-> peers[h][p.username].registry_peer,
                           detached |-> FALSE]]
                  ELSE thr
        /\ last' = [op |-> "disconnection_read", host |-> h, username |-> p.username]
    /\ CatalogUnchanged
    /\ UNCHANGED <<now, config, messages, handlers, consecutive_failures, running, peers, last_beacon, downloads, registered,
                   known_registry_peers, srv_peers>>

\* _handle_disconnection from the branch taken on
_handle_disconnection_write(h) ==
    /\ running[h]
    /\ thr[h]["listener"].pc = "disconnection"
    /\ LET me == thr[h]["listener"]
           username == me.username
       IN
       /\ last' = [op |-> "disconnection_write", host |-> h, username |-> username]
       /\ IF me.flag
          THEN \* peer.broadcast_peer = False, on the object held
               /\ peers' = IF me.detached THEN peers
                           ELSE [peers EXCEPT ![h][username].broadcast_peer = FALSE]
               /\ thr' = [thr EXCEPT ![h]["listener"] = IdleThread]
               /\ CatalogUnchanged
          ELSE IF username \in DOMAIN peers[h]
          THEN /\ peers' = [peers EXCEPT ![h] = Del(@, username)]
               /\ thr' = [Detached(h, {username}) EXCEPT ![h]["listener"] = IdleThread]
               /\ _cleanup_disconnected_peer_resources(h, username)
          ELSE \* del raises KeyError, the listener loop logs it
               /\ thr' = [thr EXCEPT ![h]["listener"] = IdleThread]
               /\ UNCHANGED peers
               /\ CatalogUnchanged
    /\ UNCHANGED <<now, config, messages, handlers, consecutive_failures, running, last_beacon, net, downloads, registered,
                   known_registry_peers, srv_peers>>

\* one round of refresh_peers up to the call of _check_disappeared_peers
refresh_peers_poll(h, resp) ==
    /\ running[h]
    /\ registered[h]
    /\ thr[h]["refresh"].pc = "idle"
    /\ IF resp = "ok"
       THEN LET peer_data == get_peers(srv_peers, now)
                seen == (DOMAIN peer_data) \ {h}
                new == seen \ DOMAIN peers[h]
                gone == disappeared(known_registry_peers[h] \cup seen, seen)
            IN
            /\ srv_peers' = peer_data
            /\ peers' = [peers EXCEPT ![h] = ProcessAll(peers[h], peer_data, seen, now)]
            /\ known_registry_peers' =
                  [known_registry_peers EXCEPT ![h] = @ \cup seen]
            /\ net' \in Transmit(net,
                  UNION {_announce_resources_to_new_peer(h, u, peer_data[u].port) :
                            u \in new})
            /\ thr' = IF gone = {} THEN thr
                      ELSE [thr EXCEPT ![h]["refresh"] =
                              [IdleThread EXCEPT !.pc = "check_read", !.todo = gone]]
            /\ consecutive_failures' = [consecutive_failures EXCEPT ![h] = 0]
            /\ last' = [op |-> "refresh_poll", host |-> h, ret |-> TRUE]
       ELSE /\ consecutive_failures[h] < MaxFailures
            /\ consecutive_failures' = [consecutive_failures EXCEPT ![h] = @ + 1]
            /\ last' = [op |-> "refresh_poll", host |-> h, ret |-> FALSE]
            /\ UNCHANGED <<srv_peers, peers, known_registry_peers, net, thr>>
    /\ CatalogUnchanged
    /\ UNCHANGED <<now, config, messages, handlers, running, last_beacon, downloads, registered>>

\* the refresh thread after it finished one username of the loop
NextUsername(me, username) ==
    IF me.todo \ {username} = {} THEN IdleThread
    ELSE [IdleThread EXCEPT !.pc = "check_read", !.todo = me.todo \ {username}]

\* _check_disappeared_peers for one username, up to the test of
\* peer.broadcast_peer
_check_disappeared_peers_read(h) ==
    /\ running[h]
    /\ thr[h]["refresh"].pc = "check_read"
    /\ \E username \in thr[h]["refresh"].todo :
        /\ last' = [op |-> "check_read", host |-> h, username |-> username]
        /\ IF username \in DOMAIN peers[h]
           THEN /\ _cleanup_disconnected_peer_resources(h, username)
                /\ thr' = [thr EXCEPT ![h]["refresh"] =
                             [pc |-> "check_write", todo |-> thr[h]["refresh"].todo,
                              username |-> username,
                              flag |-> peers[h][username].broadcast_peer,
                              detached |-> FALSE]]
                /\ UNCHANGED known_registry_peers
           ELSE /\ CatalogUnchanged
                /\ known_registry_peers' =
                      [known_registry_peers EXCEPT ![h] = @ \ {username}]
                /\ thr' = [thr EXCEPT ![h]["refresh"] =
                             NextUsername(thr[h]["refresh"], username)]
    /\ UNCHANGED <<now, config, messages, handlers, consecutive_failures, running, peers, last_beacon, net, downloads, registered,
                   srv_peers>>

\* _check_disappeared_peers for that username, from the branch taken on
_check_disappeared_peers_write(h) ==
    /\ running[h]
    /\ thr[h]["refresh"].pc = "check_write"
    /\ LET me == thr[h]["refresh"]
           username == me.username
       IN
       /\ last' = [op |-> "check_write", host |-> h, username |-> username]
       /\ IF me.flag
          THEN \* peer.registry_peer = False, on the object held
               /\ peers' = IF me.detached THEN peers
                           ELSE [peers EXCEPT ![h][username].registry_peer = FALSE]
               /\ thr' = [thr EXCEPT ![h]["refresh"] = NextUsername(me, username)]
               /\ known_registry_peers' =
                     [known_registry_peers EXCEPT ![h] = @ \ {username}]
          ELSE IF username \in DOMAIN peers[h]
          THEN /\ peers' = [peers EXCEPT ![h] = Del(@, username)]
               /\ thr' = [Detached(h, {username}) EXCEPT ![h]["refresh"] =
                            NextUsername(me, username)]
               /\ known_registry_peers' =
                     [known_registry_peers EXCEPT ![h] = @ \ {username}]
          ELSE \* del raises KeyError: the round ends in the except clause
               /\ thr' = [thr EXCEPT ![h]["refresh"] = IdleThread]
               /\ UNCHANGED <<peers, known_registry_peers>>
    /\ CatalogUnchanged
    /\ UNCHANGED <<now, config, messages, handlers, consecutive_failures, running, last_beacon, net, downloads, registered,
                   srv_peers>>

NextThreads ==
    \/ Tick
    \/ \E h \in Watched : BroadcastPresence(h)
    \/ \E h \in Hosts : HandleAnnouncement(h)
    \/ \E h \in Watchers : _handle_disconnection_read(h)
    \/ \E h \in Watchers : _handle_disconnection_write(h)
    \/ \E h \in Watchers : list_peers(h)
    \/ \E h \in Hosts : register(h, TRUE)
    \/ \E h \in Hosts : unregister(h, "ok")
    \/ \E h \in Watchers, resp \in {"ok", "fail"} :
          AtMostOneFailure(h, resp) /\ refresh_peers_poll(h, resp)
    \/ \E h \in Watchers : _check_disappeared_peers_read(h)
    \/ \E h \in Watchers : _check_disappeared_peers_write(h)
    \/ \E h \in Watched : cleanup(h, "ok")

SpecThreads == Init /\ [][NextThreads]_vars

\* C1: in every state every row of every peer table has broadcast_peer or
\* registry_peer set.
C1_FlagInvariant ==
    \A h \in Hosts : \A u \in DOMAIN peers[h] :
        peers[h][u].broadcast_peer \/ peers[h][u].registry_peer

(***************************************************************************)
(* Two hosts that beacon over a network that loses nothing.  The beacon    *)
(* thread sends every broadcast_interval and the listener thread takes     *)
(* every datagram queued at its socket: both are scheduled fairly.  The    *)
(* interval is a twentieth of peer_timeout, so the clock stands still here.*)
(***************************************************************************)
NextLive ==
    \/ \E h \in Hosts : BroadcastPresenceDelivered(h)
    \/ \E h \in Hosts : HandleAnnouncement(h)
    \/ \E h \in Hosts : list_peers(h)

SpecLive ==
    /\ Init
    /\ [][NextLive]_vars
    /\ \A h \in Hosts : WF_vars(BroadcastPresenceDelivered(h))
    /\ \A h \in Hosts : \A p \in Broadcast(AnnouncementTo(h, DefaultPort)) :
          WF_vars(_handle_announcement(p.dst, p))

\* every host holds one row, for the other host, known by broadcast alone
Converged ==
    \A h \in Hosts :
        /\ DOMAIN peers[h] = Hosts \ {h}
        /\ \A u \in DOMAIN peers[h] :
              peers[h][u].broadcast_peer /\ ~peers[h][u].registry_peer

\* C9: two hosts that start with empty tables and beacon without loss come to
\* hold exactly one row each, for the other host, with broadcast_peer true and
\* registry_peer false; and no table ever holds its host's own username.
C9_Convergence ==
    /\ <>Converged
    /\ [](\A h \in Hosts : h \notin DOMAIN peers[h])

\* both tables are converged and a host has just dropped its own beacon
C9_Witness ==
    /\ Converged
    /\ last.op = "announcement" /\ last.username = last.host

(***************************************************************************)
(* Granting access: the owner shares one path privately and edits the ACL, *)
(* the other host follows the datagrams.  The clock stands still.  A       *)
(* datagram that got on the wire stays there until the listener of its     *)
(* destination takes it, and the listener thread takes every datagram      *)
(* queued at its socket.                                                   *)
(***************************************************************************)
NextGrant ==
    \/ \E h \in Hosts : BroadcastPresence(h)
    \/ \E h \in Hosts : HandleAnnouncement(h)
    \/ \E h \in Sharers, path \in OnePath : share_resource(h, path, FALSE)
    \/ \E h \in Sharers, u \in Watchers, add \in BOOLEAN :
          \E rid \in KnownIds(h) : update_resource_access(h, rid, u, add)
    \/ \E h \in Hosts : _handle_resource_announcement(h)
    \/ \E h \in Hosts : _handle_access_update(h)
    \/ \E h \in Hosts, ok \in BOOLEAN :
          \E rid \in downloads[h] : _download_resource(h, rid, ok)

\* the ids and records the owner can make here
GrantIds == {ResourceId(h, 0, path) : h \in Sharers, path \in OnePath}

GrantRecords ==
    {[SharedResource(h, path, isdir(path), FALSE, default_password, 0)
         EXCEPT !.allowed_users = acl] :
        h \in Sharers, path \in OnePath, acl \in SUBSET Watchers}

\* the file_share datagrams that can be in flight to the other host
FileShareDatagrams ==
    {AnnounceTo(r, d, DefaultPort) : r \in GrantRecords, d \in Watchers}
    \cup {AccessTo(action, rid, u, u, DefaultPort) :
            action \in {"add_access", "remove_access"}, rid \in GrantIds,
            u \in Watchers}

\* handle_file_share_packet for the datagram p: the listener of host h takes
\* p from its socket and dispatches on the action
handle_file_share_packet(h, p) ==
    /\ p \in net
    /\ _handle_resource_announcement(h) \/ _handle_access_update(h)
    /\ p \notin net'

SpecGrant ==
    /\ Init
    /\ [][NextGrant]_vars
    /\ \A p \in FileShareDatagrams : WF_vars(handle_file_share_packet(p.dst, p))

\* the owner has just granted username access to rid, username is in the
\* owner's peer table, and both datagrams for username are on the wire
Granted(rid, username) ==
    /\ last.op = "update_access" /\ last.ret /\ last.add
    /\ last.resource_id = rid /\ last.username = username
    /\ username \in DOMAIN peers[last.host]
    /\ AccessPkt("add_access", rid, username, username) \in net
    /\ AnnouncePkt(shared_resources[last.host][rid], username) \in net

NextServer ==
    \/ TickUntil(MaxSec)
    \/ Sleep(StaleAfter, MaxServerTime)
    \/ \E h \in Hosts : register(h, TRUE)
    \/ \E h \in Hosts, ok \in BOOLEAN : send_heartbeats(h, ok)
    \/ \E h \in Watchers, resp \in {"ok", "fail"} :
          AtMostOneFailure(h, resp) /\ refresh_peers(h, resp)
    \/ \E h \in Watched : unregister(h, "ok")

SpecServer == Init /\ [][NextServer]_vars

\* C14: when the server handles GET /peers, an entry whose last_seen is more
\* than StaleAfter seconds old is deleted from the server's map and is not in
\* the response; an entry whose last_seen is at most StaleAfter seconds old
\* stays in the map and is in the response.
C14_StaleEviction ==
    [][(last'.op = "refresh" /\ last'.ret) =>
          \A u \in DOMAIN srv_peers :
              IF now - srv_peers[u].last_seen > StaleAfter
              THEN u \notin DOMAIN srv_peers' /\ u \notin last'.response
              ELSE u \in DOMAIN srv_peers' /\ u \in last'.response]_vars

\* a poll has just evicted an entry and served another one
C14_Witness ==
    /\ last.op = "refresh" /\ last.ret
    /\ now > StaleAfter
    /\ \E u \in Hosts : /\ registered[u] /\ u \notin DOMAIN srv_peers
                        /\ u \notin last.response
    /\ \E u \in last.response : now - srv_peers[u].last_seen = StaleAfter

(***************************************************************************)
(* _generate_conversation_id as a function of two usernames.  A username   *)
(* is the sequence of its character codes.  hashlib.md5 is a fixed         *)
(* function of the bytes it is given; a polynomial hash of the same output *)
(* width (five hex digits) stands for it.                                  *)
(***************************************************************************)
RECURSIVE str_le(_, _)
\* Python's s <= t on strings
str_le(s, t) ==
    IF s = <<>> THEN TRUE
    ELSE IF t = <<>> THEN FALSE
    ELSE IF Head(s) # Head(t) THEN Head(s) < Head(t)
    ELSE str_le(Tail(s), Tail(t))

unsorted(user1, user2) == <<user1, user2>>

\* sorted([user1, user2])
sorted(user1, user2) ==
    IF str_le(user1, user2) THEN <<user1, user2>> ELSE <<user2, user1>>

\* f"{sorted_users[0]}:{sorted_users[1]}"
combined(sorted_users) == sorted_users[1] \o <<Colon>> \o sorted_users[2]

RECURSIVE digest(_, _)
digest(bytes, acc) ==
    IF bytes = <<>> THEN acc
    ELSE digest(Tail(bytes), (acc * 31 + Head(bytes)) % (16 ^ HexDigits))

\* hashlib.md5(combined.encode()).hexdigest()[:5]
md5_hexdigest_prefix(bytes) == digest(bytes, 7)

_generate_conversation_id(user1, user2) ==
    md5_hexdigest_prefix(combined(sorted(user1, user2)))

\* usernames of up to MaxName characters
Usernames == UNION {[1..n -> Chars] : n \in 1..MaxName}

\* the state after construction, with the two usernames of a call drawn
InitConversation ==
    /\ Init!1 /\ Init!2 /\ Init!3 /\ Init!4 /\ Init!5 /\ Init!6 /\ Init!7
    /\ Init!8 /\ Init!9 /\ Init!10 /\ Init!11 /\ Init!12 /\ Init!13
    /\ Init!14 /\ Init!15 /\ Init!17 /\ Init!18 /\ Init!19 /\ Init!20
    /\ \E user1 \in Usernames, user2 \in Usernames :
          last = [op |-> "input", user1 |-> user1, user2 |-> user2]

\* a host computes the id of the conversation of the two usernames
generate_conversation_id(h) ==
    /\ running[h]
    /\ last.op = "input"
    /\ last' = [op |-> "conversation_id", host |-> h,
                user1 |-> last.user1, user2 |-> last.user2,
                ret |-> _generate_conversation_id(last.user1, last.user2)]
    /\ UNCHANGED <<now, config, messages, handlers, consecutive_failures, running, peers, last_beacon, net, shared_resources,
                   received_resources, downloaded_resources, downloads, local_copy,
                   file, registered, known_registry_peers, srv_peers, thr>>

NextConversation == \E h \in Hosts : generate_conversation_id(h)

SpecConversation == InitConversation /\ [][NextConversation]_vars

\* C15: the id a host computes for (A, B) is the id of (B, A); it is a
\* function of the two usernames alone, whichever host computes it.
C15_ConversationIdSymmetric ==
    last.op = "conversation_id" =>
        last.ret = _generate_conversation_id(last.user2, last.user1)

\* the id of two different usernames given in descending order
C15_Witness ==
    /\ last.op = "conversation_id"
    /\ last.user1 # last.user2
    /\ ~str_le(last.user1, last.user2)
    /\ Len(last.user1) # Len(last.user2)

(***************************************************************************)
(* SharedResource.to_dict and from_dict on the records a host can hold:    *)
(* made at some second, with an ACL and a modification time assigned       *)
(* since, and read back at a later second.                                 *)
(***************************************************************************)
Records ==
    {[SharedResource(owner, path, is_directory, shared_to_all, ftp_password, t)
         EXCEPT !.allowed_users = acl, !.modified_time = m] :
        owner \in Users, path \in OnePath, is_directory \in BOOLEAN,
        shared_to_all \in BOOLEAN, ftp_password \in {None, default_password},
        t \in 0..MaxSec, acl \in SUBSET Users, m \in 0..MaxSec}

\* the state after construction at some second, with a record drawn
InitRoundTrip ==
    /\ now \in 0..MaxSec
    /\ Init!2 /\ Init!3 /\ Init!4 /\ Init!5 /\ Init!6 /\ Init!7
    /\ Init!8 /\ Init!9 /\ Init!10 /\ Init!11 /\ Init!12 /\ Init!13
    /\ Init!14 /\ Init!15 /\ Init!17 /\ Init!18 /\ Init!19 /\ Init!20
    /\ \E r \in Records : last = [op |-> "input", resource |-> r]

\* the record is serialized and read back, as _save_resources and
\* _load_resources or a sender and a receiver do
round_trip(h) ==
    /\ running[h]
    /\ last.op = "input"
    /\ last.resource.timestamp <= now
    /\ last' = [op |-> "round_trip", host |-> h, resource |-> last.resource,
                ret |-> from_dict(to_dict(last.resource))]
    /\ UNCHANGED <<now, config, messages, handlers, consecutive_failures, running, peers, last_beacon, net, shared_resources,
                   received_resources, downloaded_resources, downloads, local_copy,
                   file, registered, known_registry_peers, srv_peers, thr>>

NextRoundTrip == \E h \in Hosts : round_trip(h)

SpecRoundTrip == InitRoundTrip /\ [][NextRoundTrip]_vars

\* C16: from_dict(to_dict(r)) has the id, owner, path, is_directory,
\* shared_to_all, timestamp, ftp_password and modified_time of r, and the
\* allowed_users of r as a set.
C16_RoundTrip ==
    last.op = "round_trip" =>
        /\ last.ret.id = last.resource.id
        /\ last.ret.owner = last.resource.owner
        /\ last.ret.path = last.resource.path
        /\ last.ret.is_directory = last.resource.is_directory
        /\ last.ret.shared_to_all = last.resource.shared_to_all
        /\ last.ret.timestamp = last.resource.timestamp
        /\ last.ret.ftp_password = last.resource.ftp_password
        /\ last.ret.modified_time = last.resource.modified_time
        /\ last.ret.allowed_users = last.resource.allowed_users

\* a directory record with two allowed users, no password and a changed
\* modification time, read back a second after it was made
C16_Witness ==
    /\ last.op = "round_trip"
    /\ last.resource.timestamp < now
    /\ Cardinality(last.resource.allowed_users) = 2
    /\ last.resource.is_directory
    /\ last.resource.ftp_password = None
    /\ last.resource.modified_time # getmtime(last.resource.path)

(***************************************************************************)
(* Shutdown, statement by statement.  The main thread of the host that     *)
(* leaves goes through cleanup() or stop(); its position is                *)
(* thr[h]["main"].pc.  Its beacon thread and the listener of the other    *)
(* host run meanwhile.                                                     *)
(***************************************************************************)
MainAt(h, pc) == [thr EXCEPT ![h]["main"].pc = pc]

\* cleanup: "if self.using_registry: self.unregister_from_server()"
cleanup_unregister(h, resp) ==
    /\ running[h]
    /\ thr[h]["main"].pc = "idle"
    /\ registered[h]
    /\ thr[h]["refresh"].pc = "idle"
    /\ srv_peers' = IF resp = "ok" THEN Del(srv_peers, h) ELSE srv_peers
    /\ peers' = [peers EXCEPT ![h] = _cleanup_registry_peers(peers[h])]
    /\ thr' = [Detached(h, (DOMAIN peers[h]) \ (DOMAIN _cleanup_registry_peers(peers[h])))
                  EXCEPT ![h]["main"].pc = "unregistered"]
    /\ registered' = [registered EXCEPT ![h] = FALSE]
    /\ known_registry_peers' = [known_registry_peers EXCEPT ![h] = {}]
    /\ last' = [op |-> "shutdown", host |-> h, step |-> "unregister",
                resp |-> resp]
    /\ UNCHANGED <<now, config, messages, handlers, consecutive_failures, running, last_beacon, net, shared_resources,
                   received_resources, downloaded_resources, downloads,
                   local_copy, file>>

\* "if self.running: self.announce_disconnection()", in cleanup after the
\* registry was left or was not in use, and in stop, which does not look at
\* the registry
shutdown_announce_disconnection(h, entry) ==
    /\ running[h]
    /\ \/ entry = "cleanup" /\ thr[h]["main"].pc = "unregistered"
       \/ entry = "cleanup" /\ thr[h]["main"].pc = "idle" /\ ~registered[h]
       \/ entry = "stop" /\ thr[h]["main"].pc = "idle"
    \* the broadcast reaches the sender's own socket too, which is still open
    /\ net' \in Transmit(net, Broadcast(DisconnectionPkt(h)))
    /\ thr' = MainAt(h, "announced")
    /\ last' = [op |-> "shutdown", host |-> h, step |-> "disconnection",
                entry |-> entry]
    /\ UNCHANGED <<now, config, messages, handlers, consecutive_failures, running, peers, last_beacon, shared_resources,
                   received_resources, downloaded_resources, downloads,
                   local_copy, file, registered, known_registry_peers, srv_peers>>

\* "self.running = False": the loops of the periodic tasks end
shutdown_signal(h) ==
    /\ thr[h]["main"].pc = "announced"
    /\ running' = [running EXCEPT ![h] = FALSE]
    /\ thr' = MainAt(h, "signalled")
    /\ last' = [op |-> "shutdown", host |-> h, step |-> "signal"]
    /\ UNCHANGED <<now, config, messages, handlers, consecutive_failures, peers, last_beacon, net, shared_resources,
                   received_resources, downloaded_resources, downloads,
                   local_copy, file, registered, known_registry_peers, srv_peers>>

\* "self.file_share_manager.stop()": FileShareManager.stop ends with
\* _save_resources()
file_share_manager_stop(h) ==
    /\ thr[h]["main"].pc = "signalled"
    /\ file' = [file EXCEPT ![h] =
          SavedCatalog(shared_resources[h], received_resources[h],
                       downloaded_resources[h])]
    /\ thr' = MainAt(h, "saved")
    /\ last' = [op |-> "shutdown", host |-> h, step |-> "persist"]
    /\ UNCHANGED <<now, config, messages, handlers, consecutive_failures, running, peers, last_beacon, net, shared_resources,
                   received_resources, downloaded_resources, downloads,
                   local_copy, registered, known_registry_peers, srv_peers>>

\* "self.udp_socket.close()": what was on its way to h is gone
udp_socket_close(h) ==
    /\ thr[h]["main"].pc = "saved"
    /\ net' = {p \in net : p.dst # h}
    /\ thr' = MainAt(h, "closed")
    /\ last' = [op |-> "shutdown", host |-> h, step |-> "close"]
    /\ UNCHANGED <<now, config, messages, handlers, consecutive_failures, running, peers, last_beacon, shared_resources,
                   received_resources, downloaded_resources, downloads,
                   local_copy, file, registered, known_registry_peers, srv_peers>>

\* a registered or unregistered host beacons, is heard, and leaves; the main
\* thread registers only while it is not leaving
NextShutdown ==
    \/ \E h \in Watched : BroadcastPresence(h)
    \/ \E h \in Watchers : HandleAnnouncement(h)
    \/ \E h \in Watchers : HandleDisconnection(h)
    \/ \E h \in Watched, ok \in BOOLEAN :
          thr[h]["main"].pc = "idle" /\ register(h, ok)
    \/ \E h \in Watched, path \in OnePath :
          thr[h]["main"].pc = "idle" /\ share_resource(h, path, TRUE)
    \/ \E h \in Watchers : _handle_resource_announcement(h)
    \/ \E h \in Watched, resp \in Responses : cleanup_unregister(h, resp)
    \/ \E h \in Watched, entry \in {"cleanup", "stop"} :
          shutdown_announce_disconnection(h, entry)
    \/ \E h \in Watched : shutdown_signal(h)
    \/ \E h \in Watched : file_share_manager_stop(h)
    \/ \E h \in Watched : udp_socket_close(h)

SpecShutdown == Init /\ [][NextShutdown]_vars

\* the positions of the main thread after the disconnection broadcast
AfterDisconnection == {"announced", "signalled", "saved", "closed"}

\* C17: when a host that is registered shuts down, unregister is called after
\* the disconnection broadcast was emitted, the periodic tasks are signalled
\* after unregister was called, and persisting the catalog ends the shutdown.
C17_ShutdownOrder ==
    [][\A h \in Hosts :
          (last'.op = "shutdown" /\ last'.host = h) =>
              /\ last'.step = "unregister" =>
                    thr[h]["main"].pc \in AfterDisconnection
              /\ last'.step = "signal" => ~registered[h]
              /\ last'.step = "persist" => thr'[h]["main"].pc = "closed"]_vars

\* C18: unregister() of a registered host, whether the POST succeeds, returns
\* another status or fails in transport, leaves the host unregistered with no
\* known registry peers, and its table without the rows that were known by
\* the registry alone and with no row that has registry_peer set; the other
\* rows stay with their broadcast_peer.
C18_UnregisterDisconnects ==
    last.op = "unregister" =>
        LET h == last.host
            registry_only == {u \in DOMAIN last.before :
                                 /\ last.before[u].registry_peer
                                 /\ ~last.before[u].broadcast_peer}
        IN
        /\ ~registered[h]
        /\ known_registry_peers[h] = {}
        /\ DOMAIN peers[h] = (DOMAIN last.before) \ registry_only
        /\ \A u \in DOMAIN peers[h] :
              /\ ~peers[h][u].registry_peer
              /\ peers[h][u].broadcast_peer = last.before[u].broadcast_peer

\* the POST failed in transport while the table held a row known by the
\* registry alone
C18_Witness ==
    /\ last.op = "unregister"
    /\ last.resp = "transport"
    /\ \E u \in DOMAIN last.before :
          last.before[u].registry_peer /\ ~last.before[u].broadcast_peer
    /\ peers[last.host] = EmptyDict

(***************************************************************************)
(* Calls that are refused: either host calls update_resource_access and    *)
(* set_share_to_all with the id of the owner's resource, which it may own, *)
(* hold as received, or not know at all, and shares a path that exists or  *)
(* one that does not.  The clock stands still.                             *)
(***************************************************************************)
MissingPath == Paths \ ExistingPaths

NextRefuse ==
    \/ \E h \in Watchers : BroadcastPresence(h)
    \/ \E h \in Sharers : HandleAnnouncement(h)
    \/ \E h \in Sharers, path \in OnePath \cup MissingPath, share_to_all \in BOOLEAN :
          share_resource(h, path, share_to_all)
    \/ \E h \in Hosts, rid \in GrantIds, u \in Watchers, add \in BOOLEAN :
          update_resource_access(h, rid, u, add)
    \/ \E h \in Hosts, rid \in GrantIds, share_to_all \in BOOLEAN :
          set_share_to_all(h, rid, share_to_all)
    \/ \E h \in Watchers : _handle_resource_announcement(h)
    \/ \E h \in Watchers : _handle_access_update(h)

SpecRefuse == Init /\ [][NextRefuse]_vars

\* the step left the catalog of h, its file and the network as they were
NothingChanged(h) ==
    /\ shared_resources'[h] = shared_resources[h]
    /\ received_resources'[h] = received_resources[h]
    /\ downloaded_resources'[h] = downloaded_resources[h]
    /\ file'[h] = file[h]
    /\ net' = net

\* C19: update_access and set_share_to_all with a resource_id that is not an
\* owned resource of the caller return false, share of a path that does not
\* exist returns no resource, and each leaves owned, received, downloaded and
\* the catalog file unchanged and puts no datagram on the network.
C19_RefusedChangesNothing ==
    [][/\ (/\ last'.op \in {"update_access", "set_share_to_all"}
           /\ last'.resource_id \notin DOMAIN shared_resources[last'.host])
          => (last'.ret = FALSE /\ NothingChanged(last'.host))
       /\ (last'.op = "share" /\ last'.path \in MissingPath)
          => (last'.ret = {} /\ NothingChanged(last'.host))]_vars

\* a host that holds the resource as received, with the owner in its peer
\* table and a datagram on its way, was refused a change of the resource
C19_Witness ==
    /\ last.op \in {"update_access", "set_share_to_all"}
    /\ last.ret = FALSE
    /\ last.resource_id \in DOMAIN received_resources[last.host]
    /\ net # {}

(***************************************************************************)
(* Updates of a shared file: the owner's sync thread notices that the file *)
(* was modified and announces the record again; the other host stores the  *)
(* updated record and downloads the file again.  The clock stands still.   *)
(***************************************************************************)
update_modified_time(resource, mod_time) ==
    IF mod_time # resource.modified_time
    THEN [resource EXCEPT !.modified_time = mod_time]
    ELSE resource

\* the file counts as modified whenever its time differs from the recorded one
modified_differs(current_mod_time, resource) ==
    current_mod_time # resource.modified_time

\* "Check if the file has been modified"
modified_since(current_mod_time, resource) ==
    current_mod_time > resource.modified_time

\* _check_for_file_updates for one owned record: path_exists is what
\* os.path.exists finds for the original path at the time of the scan (the
\* file can have been removed since it was shared) and current_mod_time is
\* the file's modification time then
_check_for_file_updates(h, resource_id, path_exists, current_mod_time) ==
    /\ running[h]
    /\ resource_id \in DOMAIN shared_resources[h]
    /\ LET resource == update_modified_time(shared_resources[h][resource_id],
                                            current_mod_time)
       IN
       IF path_exists
          /\ modified_since(current_mod_time, shared_resources[h][resource_id])
       THEN /\ SetCatalog(h, Put(shared_resources[h], resource_id, resource),
                          received_resources[h], downloaded_resources[h], TRUE)
            /\ net' \in Transmit(net, _announce_resource(resource))
            /\ last' = [op |-> "file_update", host |-> h,
                        resource_id |-> resource_id,
                        path_exists |-> path_exists,
                        current_mod_time |-> current_mod_time,
                        sent |-> _announce_resource(resource)]
       ELSE /\ CatalogUnchanged
            /\ UNCHANGED net
            /\ last' = [op |-> "file_update", host |-> h,
                        resource_id |-> resource_id,
                        path_exists |-> path_exists,
                        current_mod_time |-> current_mod_time,
                        sent |-> {}]
    /\ UNCHANGED <<now, config, messages, handlers, consecutive_failures, running, peers, last_beacon, downloads, registered,
                   known_registry_peers, srv_peers, thr>>

NextUpdate ==
    \/ \E h \in Hosts : BroadcastPresence(h)
    \/ \E h \in Hosts : HandleAnnouncement(h)
    \/ \E h \in Sharers, path \in OnePath : share_resource(h, path, TRUE)
    \/ \E h \in Sharers, rid \in GrantIds, path_exists \in BOOLEAN,
             m \in 0..MaxMtime :
          _check_for_file_updates(h, rid, path_exists, m)
    \/ \E h \in Watchers : _handle_resource_announcement(h)
    \/ \E h \in Watchers, ok \in BOOLEAN :
          \E rid \in downloads[h] : _download_resource(h, rid, ok)

SpecUpdate == Init /\ [][NextUpdate]_vars

\* C20: between catalog operations the catalog file of every host lists
\* exactly its owned records, its received records and its downloaded ids.
C20_FileEqualsCatalog ==
    \A h \in Hosts :
        /\ {from_dict(d) : d \in file[h].shared} = Values(shared_resources[h])
        /\ {from_dict(d) : d \in file[h].received} = Values(received_resources[h])
        /\ file[h].downloaded = downloaded_resources[h]

(***************************************************************************)
(* A peer leaves: the owner of a shared file beacons, registers, shares    *)
(* and shuts down; the other host follows it on both axes and processes    *)
(* the disconnection datagram.  The clock stands still.                    *)
(***************************************************************************)
NextLeave ==
    \/ \E h \in Watched : BroadcastPresence(h)
    \/ \E h \in Watchers : HandleAnnouncement(h)
    \/ \E h \in Sharers, path \in OnePath :
          thr[h]["main"].pc = "idle" /\ share_resource(h, path, TRUE)
    \/ \E h \in Watchers : _handle_resource_announcement(h)
    \/ \E h \in Watchers : \E rid \in downloads[h] : _download_resource(h, rid, TRUE)
    \/ \E h \in Hosts : thr[h]["main"].pc = "idle" /\ register(h, TRUE)
    \/ \E h \in Watchers : refresh_peers(h, "ok")
    \/ \E h \in Hosts : HandleDisconnection(h)
    \/ \E h \in Watched : cleanup_unregister(h, "ok")
    \/ \E h \in Watched : shutdown_announce_disconnection(h, "cleanup")
    \/ \E h \in Watched : shutdown_signal(h)
    \/ \E h \in Watched : file_share_manager_stop(h)
    \/ \E h \in Watched : udp_socket_close(h)

SpecLeave == Init /\ [][NextLeave]_vars

\* the received records of host h that username owns
ReceivedFrom(h, username) ==
    {rid \in DOMAIN received_resources[h] :
        received_resources[h][rid].owner = username}

\* C21: a disconnection datagram for u processed by h.  A row of u with
\* registry_peer set stays, with broadcast_peer false and registry_peer true,
\* and the received records and downloaded ids stay as they are.  A row with
\* registry_peer clear is deleted and no received record owned by u, nor its
\* downloaded id or local copy, is left.  With u = h or u not in the table the
\* table and the catalog stay as they are.
C21_Disconnection ==
    [][last'.op = "disconnection" =>
          LET h == last'.host
              u == last'.username
          IN
          IF u # h /\ u \in DOMAIN peers[h]
          THEN IF peers[h][u].registry_peer
               THEN /\ peers'[h] = [peers[h] EXCEPT ![u].broadcast_peer = FALSE]
                    /\ peers'[h][u].registry_peer
                    /\ received_resources'[h] = received_resources[h]
                    /\ downloaded_resources'[h] = downloaded_resources[h]
                    /\ local_copy'[h] = local_copy[h]
               ELSE /\ DOMAIN peers'[h] = (DOMAIN peers[h]) \ {u}
                    /\ \A rid \in DOMAIN received_resources'[h] :
                          received_resources'[h][rid].owner # u
                    /\ downloaded_resources'[h] =
                          downloaded_resources[h] \ ReceivedFrom(h, u)
                    /\ \A rid \in ReceivedFrom(h, u) : dest_path(rid) \notin local_copy'[h]
                    /\ \A rid \in (DOMAIN received_resources[h]) \ ReceivedFrom(h, u) :
                          rid \in DOMAIN received_resources'[h]
          ELSE /\ peers'[h] = peers[h]
               /\ received_resources'[h] = received_resources[h]
               /\ downloaded_resources'[h] = downloaded_resources[h]
               /\ local_copy'[h] = local_copy[h]]_vars

\* the peer that left is still listed by the registry: its row stays, known
\* by the registry alone, and the file downloaded from it stays too
C21_Witness ==
    /\ last.op = "disconnection"
    /\ last.username # last.host
    /\ last.username \in DOMAIN peers[last.host]
    /\ peers[last.host][last.username].registry_peer
    /\ ~peers[last.host][last.username].broadcast_peer
    /\ \E rid \in ReceivedFrom(last.host, last.username) :
          /\ rid \in downloaded_resources[last.host]
          /\ dest_path(rid) \in local_copy[last.host]

\* C22: a successful poll of host h that does not list a username u of
\* known_registry_peers leaves u out of known_registry_peers, leaves no row of
\* u with registry_peer set (the row is gone if broadcast_peer was clear and
\* stays if it was set), and leaves no received record owned by u, nor its
\* downloaded id or local copy, whatever broadcast_peer was.
C22_DisappearedFromRegistry ==
    [][(last'.op = "refresh" /\ last'.ret) =>
          LET h == last'.host IN
          \A u \in known_registry_peers[h] \ last'.response :
              /\ u \notin known_registry_peers'[h]
              /\ u \in DOMAIN peers'[h] <=>
                    (u \in DOMAIN peers[h] /\ peers[h][u].broadcast_peer)
              /\ u \in DOMAIN peers'[h] =>
                    (~peers'[h][u].registry_peer /\ peers'[h][u].broadcast_peer)
              /\ \A rid \in DOMAIN received_resources'[h] :
                    received_resources'[h][rid].owner # u
              /\ \A rid \in ReceivedFrom(h, u) :
                    /\ rid \notin downloaded_resources'[h]
                    /\ dest_path(rid) \notin local_copy'[h]]_vars

\* the peer that is no longer listed still beacons: its row stays, known by
\* broadcast alone, and the record received from it is gone while the worker
\* that was started for it is still at work
C22_Witness ==
    /\ last.op = "refresh" /\ last.ret
    /\ \E u \in last.gone :
          /\ u \in DOMAIN peers[last.host]
          /\ peers[last.host][u].broadcast_peer
          /\ ~peers[last.host][u].registry_peer
          /\ u \notin known_registry_peers[last.host]
          /\ \E rid \in downloads[last.host] :
                rid[1] = u /\ rid \notin DOMAIN received_resources[last.host]

(***************************************************************************)
(* Registry polls that fail.  The watching host holds rows on both axes    *)
(* and a received record; the other host may leave the registry, so that   *)
(* the server's list and the table differ when a poll fails.  The clock    *)
(* stands still.                                                           *)
(***************************************************************************)
PollResponses == {"ok", "non200", "transport", "timeout"}

NextPoll ==
    \/ \E h \in Watched : BroadcastPresence(h)
    \/ \E h \in Watchers : HandleAnnouncement(h)
    \/ \E h \in Sharers, path \in OnePath : share_resource(h, path, TRUE)
    \/ \E h \in Watchers : _handle_resource_announcement(h)
    \/ \E h \in Hosts : register(h, TRUE)
    \/ \E h \in Watched : unregister(h, "ok")
    \/ \E h \in Watchers, resp \in PollResponses : refresh_peers(h, resp)

SpecPoll == Init /\ [][NextPoll]_vars

\* C23: a poll that fails leaves the peer table, known_registry_peers, the
\* received records and the downloaded ids of the host as they were, and the
\* host registered.
C23_FailedPoll ==
    [][(last'.op = "refresh" /\ last'.resp \in PollResponses \ {"ok"}) =>
          LET h == last'.host IN
          /\ peers'[h] = peers[h]
          /\ known_registry_peers'[h] = known_registry_peers[h]
          /\ received_resources'[h] = received_resources[h]
          /\ downloaded_resources'[h] = downloaded_resources[h]
          /\ file'[h] = file[h]
          /\ registered'[h]]_vars

\* the poll failed while the table held a row, known by the registry alone,
\* of a peer that the server no longer lists, and a record received from it
C23_Witness ==
    /\ last.op = "refresh" /\ last.resp = "timeout"
    /\ \E u \in known_registry_peers[last.host] :
          /\ u \notin DOMAIN srv_peers
          /\ u \in DOMAIN peers[last.host]
          /\ peers[last.host][u].registry_peer
          /\ ~peers[last.host][u].broadcast_peer
          /\ ReceivedFrom(last.host, u) # {}

\* C24: a host whose last five or more polls failed in a row has taken the
\* registry connection as lost, and, while it stays registered, it keeps
\* taking it as lost whatever the later polls give; a failed poll leaves the
\* host registered and the broadcast_peer flags as they are; after fewer than
\* five failures in a row the connection is not taken as lost.
C24_Degraded ==
    [][\A h \in Hosts :
          /\ consecutive_failures'[h] >= FailureLimit => connection_lost(h)'
          /\ (connection_lost(h) /\ registered'[h]) => connection_lost(h)'
          /\ (last'.op = "refresh" /\ last'.host = h /\ last'.resp # "ok") =>
                /\ registered'[h]
                /\ \A u \in DOMAIN peers[h] :
                      /\ u \in DOMAIN peers'[h]
                      /\ peers'[h][u].broadcast_peer = peers[h][u].broadcast_peer]_vars

(***************************************************************************)
(* Newcomers: the owner shares a file, privately or with everyone, and     *)
(* edits the ACL; the other host shows up by beacon and in the registry's  *)
(* list, and its row goes when the owner leaves the registry.  The clock   *)
(* stands still.                                                           *)
(***************************************************************************)
NextNewcomer ==
    \/ \E h \in Watchers : BroadcastPresence(h)
    \/ \E h \in Sharers : HandleAnnouncement(h)
    \/ \E h \in Sharers, path \in OnePath, share_to_all \in BOOLEAN :
          share_resource(h, path, share_to_all)
    \/ \E h \in Sharers, u \in Watchers, add \in BOOLEAN :
          \E rid \in DOMAIN shared_resources[h] : update_resource_access(h, rid, u, add)
    \/ \E h \in Hosts : register(h, TRUE)
    \/ \E h \in Sharers : refresh_peers(h, "ok")
    \/ \E h \in Sharers : unregister(h, "ok")

SpecNewcomer == Init /\ [][NextNewcomer]_vars

\* the announce datagrams for P of the owned records of h that P may access
AnnouncesFor(h, P) ==
    {AnnouncePkt(r, P) :
        r \in {o \in Values(shared_resources[h]) :
                 o.shared_to_all \/ P \in o.allowed_users}}

\* C25: a beacon or a poll processed by host h sends, for every peer P whose
\* row it creates, one announce to P for each owned record that is shared to
\* all or has P in allowed_users, and nothing else: nothing for the other
\* records and nothing for a peer whose row was there.
C25_NewcomerAnnounce ==
    [][last'.op \in {"announcement", "refresh"} =>
          LET h == last'.host
              created == (DOMAIN peers'[h]) \ (DOMAIN peers[h])
          IN
          /\ last'.sent = UNION {AnnouncesFor(h, P) : P \in created}
          /\ net' \ net \subseteq last'.sent]_vars

\* a poll made the row of a peer that is in the ACL of the owner's private
\* record: the record was sent to it
C25_Witness ==
    /\ last.op = "refresh" /\ last.sent # {}
    /\ last.sent \subseteq net
    /\ \E r \in Values(shared_resources[last.host]) :
          ~r.shared_to_all /\ r.allowed_users = last.seen

\* ---------------------------------------------------------------------
\* Re-learning the access list after a dropped access update

\* the datagrams a handler has just sent to host d all reached the wire
DeliveredTo(d) == \A p \in last'.sent : p.dst = d => p \in net'

\* the owner shares one path privately and grants or revokes the other user;
\* the two hosts meet through the registry or through the beacons of the
\* other user, and the owner's registry rows go when it unregisters
NextRelearn ==
    \/ \E h \in Sharers, path \in OnePath : share_resource(h, path, FALSE)
    \/ \E h \in Sharers, u \in Watchers, add \in BOOLEAN :
          \E rid \in KnownIds(h) : update_resource_access(h, rid, u, add)
    \/ \E h \in Hosts : register(h, TRUE)
    \/ \E h \in Sharers : refresh_peers(h, "ok") /\ DeliveredTo("b")
    \/ \E h \in Sharers : unregister(h, "ok")
    \/ \E h \in Watchers : BroadcastPresenceDelivered(h)
    \/ \E h \in Hosts : HandleAnnouncement(h) /\ DeliveredTo("b")
    \/ \E h \in Hosts : _handle_resource_announcement(h)
    \/ \E h \in Hosts : _handle_access_update(h)
    \/ \E h \in Watchers, ok \in BOOLEAN :
          \E rid \in downloads[h] : _download_resource(h, rid, ok)

\* the file_share datagrams that can be in flight to either host
RelearnDatagrams ==
    {AnnounceTo(r, d, DefaultPort) : r \in GrantRecords, d \in Hosts}
    \cup {AccessTo(action, rid, u, u, DefaultPort) :
            action \in {"add_access", "remove_access"}, rid \in GrantIds,
            u \in Watchers}

\* the broadcast loop of the other user keeps sending beacons, and both
\* listeners keep taking what is on their sockets
SpecRelearn ==
    /\ Init
    /\ [][NextRelearn]_vars
    /\ \A h \in Watchers : WF_vars(BroadcastPresenceDelivered(h))
    /\ \A h \in Hosts : WF_vars(HandleAnnouncement(h) /\ DeliveredTo("b"))
    /\ \A p \in RelearnDatagrams : WF_vars(handle_file_share_packet(p.dst, p))

\* the owner h has just changed the access of username to rid while username
\* was not in its peer table, so that no datagram was sent
Dropped(h, rid, username) ==
    /\ last.op = "update_access" /\ last.ret /\ last.host = h
    /\ last.resource_id = rid /\ last.username = username
    /\ username \notin DOMAIN peers[h]

\* the catalog of username agrees with the access list of the owner h
Agrees(h, rid, username) ==
    /\ rid \in DOMAIN shared_resources[h]
    /\ rid \in DOMAIN received_resources[username]
          <=> can_access(shared_resources[h][rid], username)

\* C26: after an access update for username was dropped because username
\* was not in the owner's peer table, username reappears in the table,
\* takes the owner's announcements, and its catalog then agrees with the
\* owner's access list: it holds rid if and only if the record grants it.
C26_Relearn ==
    \A h \in Sharers : \A rid \in GrantIds : \A u \in Watchers :
        Dropped(h, rid, u) ~> Agrees(h, rid, u)

\* ---------------------------------------------------------------------
\* Announcements of a record the host already holds

\* C27: an announcement of an id the host holds, from another owner and
\* still granting the host access, replaces the record, takes the id out of
\* downloaded and starts a download when its modification time is later
\* than the held one; otherwise the received map, the downloaded set and the
\* downloads are left as they were.
C27_KnownAnnounce ==
    [][last'.op = "announce" =>
          LET h == last'.host
              resource == last'.resource
              rid == resource.id
          IN
          (/\ resource.owner # h
           /\ rid \in DOMAIN received_resources[h]
           /\ can_access(resource, h)) =>
              IF resource.modified_time > received_resources[h][rid].modified_time
              THEN /\ received_resources'[h] =
                         Put(received_resources[h], rid, resource)
                   /\ downloaded_resources'[h] = downloaded_resources[h] \ {rid}
                   /\ rid \in downloads'[h]
              ELSE /\ received_resources'[h] = received_resources[h]
                   /\ downloaded_resources'[h] = downloaded_resources[h]
                   /\ downloads'[h] = downloads[h]]_vars

\* an updated record has just replaced the held one after a finished
\* download of the earlier version, and its download runs
C27_Witness ==
    /\ last.op = "announce" /\ last.resource.modified_time > 0
    /\ LET h == last.host
           rid == last.resource.id
       IN
       /\ rid \in DOMAIN received_resources[h]
       /\ received_resources[h][rid] = last.resource
       /\ rid \in downloads[h] /\ rid \notin downloaded_resources[h]
       /\ local_copy[h] # {}

\* ---------------------------------------------------------------------
\* Revocation by announcement

\* the owner shares one path with everybody, changes the access list and the
\* share-to-all flag, and the other host takes the announcements and
\* downloads
NextRevoke ==
    \/ \E h \in Sharers, path \in OnePath : share_resource(h, path, TRUE)
    \/ \E h \in Sharers, rid \in GrantIds, all \in BOOLEAN :
          set_share_to_all(h, rid, all)
    \/ \E h \in Sharers, rid \in GrantIds, u \in Watchers, add \in BOOLEAN :
          update_resource_access(h, rid, u, add)
    \/ \E h \in Hosts : _handle_resource_announcement(h)
    \/ \E h \in Watchers, ok \in BOOLEAN :
          \E rid \in downloads[h] : _download_resource(h, rid, ok)

SpecRevoke == Init /\ [][NextRevoke]_vars

\* C28: an announcement of an id the host holds, from another owner, whose
\* record does not grant the host access takes the id out of received and
\* of downloaded, deletes the local copy and persists the catalog; and
\* set_share_to_all(r, false) of the owner broadcasts the record that grants
\* access to the allowed users alone.
C28_Revocation ==
    [][/\ last'.op = "announce" =>
             LET h == last'.host
                 resource == last'.resource
                 rid == resource.id
             IN
             (/\ resource.owner # h
              /\ rid \in DOMAIN received_resources[h]
              /\ ~can_access(resource, h)) =>
                 /\ rid \notin DOMAIN received_resources'[h]
                 /\ rid \notin downloaded_resources'[h]
                 /\ resource_path(received_resources[h][rid]) \notin local_copy'[h]
                 /\ file'[h] = SavedCatalog(shared_resources'[h],
                                            received_resources'[h],
                                            downloaded_resources'[h])
       /\ (last'.op = "set_share_to_all" /\ last'.ret) =>
             LET h == last'.host
                 resource == shared_resources'[h][last'.resource_id]
             IN
             /\ net' \ net \subseteq Broadcast(AnnouncePkt(resource, h))
             /\ ~resource.shared_to_all =>
                   \A u \in Hosts :
                       can_access(resource, u) <=>
                           u = h \/ u \in resource.allowed_users]_vars

\* the host held the record with its copy downloaded, the owner withdrew the
\* share-to-all flag, and the announcement of that has just been taken: the
\* record, the mark and the copy are gone
C28_Witness ==
    /\ last.op = "announce" /\ ~last.resource.shared_to_all
    /\ LET h == last.host
           rid == last.resource.id
       IN
       /\ last.resource.owner # h
       /\ h \notin last.resource.allowed_users
       /\ last.has
       /\ rid \notin DOMAIN received_resources[h]
       /\ rid \notin downloaded_resources[h]
       /\ local_copy[h] = {}
       /\ file[h].received = {}

\* ---------------------------------------------------------------------
\* The periodic scan of the owned files

\* what the scan of host h is to leave alone when it finds nothing to do
ScanChangesNothing(h) ==
    /\ shared_resources'[h] = shared_resources[h]
    /\ file'[h] = file[h]
    /\ net' = net
    /\ last'.sent = {}

\* what the scan of host h does for the record of id rid when it finds the
\* file modified at time m: the time is recorded, the catalog persisted and
\* the record broadcast again
ScanUpdates(h, rid, m) ==
    /\ shared_resources'[h][rid] =
          [shared_resources[h][rid] EXCEPT !.modified_time = m]
    /\ file'[h] = SavedCatalog(shared_resources'[h], received_resources'[h],
                               downloaded_resources'[h])
    /\ last'.sent = Broadcast(AnnouncePkt(shared_resources'[h][rid], h))
    /\ net' \ net \subseteq last'.sent

\* C29 as stated: the scan of an owned record whose path exists records,
\* persists and broadcasts on any change of the file's modification time
\* relative to the recorded one, and changes nothing when the time is the
\* same or the path is missing.
C29_ScanAnyChange ==
    [][last'.op = "file_update" =>
          LET h == last'.host
              rid == last'.resource_id
              m == last'.current_mod_time
          IN
          IF last'.path_exists /\ m # shared_resources[h][rid].modified_time
          THEN ScanUpdates(h, rid, m)
          ELSE ScanChangesNothing(h)]_vars

\* C29: the scan of an owned record whose path exists records, persists and
\* broadcasts when the file's modification time is later than the recorded
\* one, and changes nothing when the time is not later or the path is
\* missing.
C29_ScanLater ==
    [][last'.op = "file_update" =>
          LET h == last'.host
              rid == last'.resource_id
              m == last'.current_mod_time
          IN
          IF last'.path_exists /\ m > shared_resources[h][rid].modified_time
          THEN ScanUpdates(h, rid, m)
          ELSE ScanChangesNothing(h)]_vars

\* a scan has just found the file modified: the later time is recorded and
\* saved, and the announcement is on the wire
C29_Witness ==
    /\ last.op = "file_update" /\ last.path_exists
    /\ last.current_mod_time > 0
    /\ shared_resources[last.host][last.resource_id].modified_time
          = last.current_mod_time
    /\ last.sent # {} /\ last.sent \subseteq net
    /\ file[last.host] = SavedCatalog(shared_resources[last.host],
                                      received_resources[last.host],
                                      downloaded_resources[last.host])

\* ---------------------------------------------------------------------
\* The port of the targeted datagrams

\* a second port a host can be configured with
OtherPort == DefaultPort + 1
Ports == {DefaultPort, OtherPort}

\* every host is constructed with a configured port of its own
InitPorts ==
    /\ Init!1 /\ Init!2 /\ Init!3 /\ Init!4 /\ Init!5 /\ Init!6 /\ Init!7
    /\ Init!8 /\ Init!9 /\ Init!10 /\ Init!11 /\ Init!12 /\ Init!13
    /\ Init!14 /\ Init!15 /\ Init!16 /\ Init!17 /\ Init!19 /\ Init!20
    /\ config \in [Hosts -> [port : Ports]]

\* the owner shares one path and changes its access list; it learns of the
\* other host by the registry or, where the two are bound to the same port,
\* by its beacons
NextPorts ==
    \/ \E h \in Hosts : register(h, TRUE)
    \/ \E h \in Sharers : refresh_peers(h, "ok")
    \/ \E h \in Watchers : BroadcastPresence(h)
    \/ \E h \in Sharers : HandleAnnouncement(h)
    \/ \E h \in Sharers, path \in OnePath, all \in BOOLEAN :
          share_resource(h, path, all)
    \/ \E h \in Sharers, rid \in GrantIds, u \in Watchers, add \in BOOLEAN :
          update_resource_access(h, rid, u, add)

SpecPorts == InitPorts /\ [][NextPorts]_vars

\* the datagrams of a step that go to one named peer: the announcements to
\* a new peer and the access updates
Targeted ==
    {p \in last'.sent :
        \/ last'.op \in {"announcement", "refresh"}
        \/ p.action \in {"add_access", "remove_access"}}

\* the port the registry holds for username: register posts the configured
\* port of the host
advertised_port(username) == config[username].port

\* C30: every targeted datagram (announcement to a new peer, add_access,
\* remove_access) is sent to the port of the peer's row, which is the port
\* the registry advertises when the peer is registry-attested and the
\* sender's configured port otherwise.
C30_TargetPort ==
    [][last'.op \in {"announcement", "refresh", "update_access"} =>
          \A p \in Targeted :
              LET h == last'.host
                  peer == peers'[h][p.dst]
              IN
              /\ p.dst \in DOMAIN peers'[h]
              /\ p.port = peer.port
              /\ peer.port = IF peer.registry_peer
                             THEN advertised_port(p.dst)
                             ELSE config[h].port]_vars

(***************************************************************************)
(* Direct messages (udp_discovery.py send_message, _handle_message)        *)
(***************************************************************************)
\* Message (types.py); title and content are of no interest and left out
Message(id, sender, recipient, t, conversation_id, reply_to) ==
    [id |-> id, sender |-> sender, recipient |-> recipient, timestamp |-> t,
     conversation_id |-> conversation_id, reply_to |-> reply_to]

\* Message.to_dict and Message.from_dict: the timestamp travels as a string
Message_to_dict(m) == [m EXCEPT !.timestamp = isoformat(m.timestamp)]
Message_from_dict(d) == [d EXCEPT !.timestamp = fromisoformat(d.timestamp)]

MessageTo(m, d, port) ==
    [type |-> "message", data |-> Message_to_dict(m), dst |-> d, port |-> port]

\* str(uuid.uuid4()): an id no message of the host's list carries
uuid4(h) == <<h, Len(messages[h])>>

\* the characters of a host's username
Name(h) == IF h = "a" THEN <<97>> ELSE <<98>>

\* send_message without conversation_id and reply_to; ok says whether sendto
\* returned, else it raised and the except branch returns None
send_message(h, recipient, ok) ==
    /\ running[h]
    /\ Len(messages[h]) < MaxMessages
    /\ IF recipient \notin DOMAIN peers[h]
       THEN /\ last' = [op |-> "send_message", host |-> h, recipient |-> recipient,
                        returned |-> FALSE, sent |-> {}]
            /\ UNCHANGED <<net, messages>>
       ELSE LET conv_id == _generate_conversation_id(Name(h), Name(recipient))
                message == Message(uuid4(h), h, recipient, now, conv_id, None)
                \* "Use the peer's stored port"
                stored_port == peers[h][recipient].port
                packet == MessageTo(message, recipient, stored_port)
            IN
            IF ok
            THEN /\ net' \in Transmit(net, {packet})
                 /\ messages' = [messages EXCEPT ![h] = Append(@, message)]
                 /\ last' = [op |-> "send_message", host |-> h,
                             recipient |-> recipient, returned |-> TRUE,
                             message |-> message, sent |-> {packet}]
            ELSE /\ last' = [op |-> "send_message", host |-> h,
                             recipient |-> recipient, returned |-> FALSE,
                             sent |-> {}]
                 /\ UNCHANGED <<net, messages>>
    /\ UNCHANGED <<now, config, handlers, consecutive_failures, running, peers,
                   last_beacon, shared_resources, received_resources, downloaded_resources,
                   downloads, local_copy, file, registered, known_registry_peers,
                   srv_peers, thr>>

addressed_to_anyone(msg, h) == TRUE

\* "if msg.recipient == self.username"
addressed_to(msg, h) == msg.recipient = h

\* _handle_message: the listener takes a message datagram from its socket
_handle_message(h) ==
    /\ running[h]
    /\ thr[h]["listener"].pc = "idle"
    /\ \E p \in net :
        /\ p.dst = h /\ p.type = "message"
        /\ net' = net \ {p}
        /\ LET msg == Message_from_dict(p.data) IN
           /\ messages' = IF addressed_to(msg, h)
                          THEN [messages EXCEPT ![h] =
                                   Append(@, [msg EXCEPT !.timestamp = now])]
                          ELSE messages
           /\ last' = [op |-> "message", host |-> h, msg |-> msg]
    /\ UNCHANGED <<now, config, handlers, consecutive_failures, running, peers,
                   last_beacon, shared_resources, received_resources, downloaded_resources,
                   downloads, local_copy, file, registered, known_registry_peers,
                   srv_peers, thr>>

\* recvfrom hands the listener whatever reaches the port: a message datagram
\* for another recipient, from a sender whose row of that recipient holds
\* this host's address
stray_message(h, sender, recipient) ==
    /\ running[h]
    /\ recipient # h
    /\ net' \in Transmit(net,
          {MessageTo(Message(<<sender, -1>>, sender, recipient, now,
                             _generate_conversation_id(Name(sender), Name(recipient)),
                             None),
                     h, config[h].port)})
    /\ last' = [op |-> "stray", host |-> h]
    /\ UNCHANGED <<now, config, messages, handlers, consecutive_failures, running, peers, last_beacon,
                   shared_resources, received_resources, downloaded_resources,
                   downloads, local_copy, file, registered, known_registry_peers,
                   srv_peers, thr>>

\* one host learns of the other by its beacons and writes to it
NextMessages ==
    \/ \E h \in Watched : BroadcastPresence(h)
    \/ \E h \in Watchers : HandleAnnouncement(h)
    \/ \E h \in Hosts, recipient \in Hosts, ok \in BOOLEAN :
          send_message(h, recipient, ok)
    \/ \E h \in Hosts : _handle_message(h)
    \/ \E h \in Watched, sender \in Watchers, recipient \in Hosts :
          stray_message(h, sender, recipient)

SpecMessages == Init /\ [][NextMessages]_vars

\* how often the message m is in the list
Occurrences(list, m) == Cardinality({i \in DOMAIN list : list[i] = m})

\* C31: an inbound message datagram is appended to the list of the host if
\* and only if its recipient is the host's username; send_message to a
\* recipient that is not in the peer table returns None, sends nothing and
\* appends nothing; a message that was sent is in the sender's list exactly
\* once.
C31_Messages ==
    [][/\ last'.op = "message" =>
             LET h == last'.host
                 msg == last'.msg
             IN
             IF msg.recipient = h
             THEN messages'[h] = Append(messages[h], [msg EXCEPT !.timestamp = now])
             ELSE messages'[h] = messages[h]
       /\ last'.op = "send_message" =>
             LET h == last'.host IN
             /\ last'.recipient \notin DOMAIN peers[h] =>
                   /\ ~last'.returned
                   /\ net' = net
                   /\ messages' = messages
             /\ last'.returned =>
                   /\ messages'[h] = Append(messages[h], last'.message)
                   /\ Occurrences(messages'[h], last'.message) = 1
                   /\ net' \ net \subseteq last'.sent
             /\ ~last'.returned => messages' = messages /\ net' = net]_vars

\* a host holds one message, which it received and which its sender holds
\* as well, and a datagram for another recipient has just been taken from
\* its socket without a trace
C31_Witness ==
    /\ last.op = "message" /\ last.msg.recipient # last.host
    /\ LET list == messages[last.host] IN
       /\ Len(list) = 1
       /\ list[1].recipient = last.host
       /\ \E i \in DOMAIN messages[list[1].sender] :
             messages[list[1].sender][i].id = list[1].id

(***************************************************************************)
(* Rendezvous server (src/registry.py), statement by statement.  Flask     *)
(* serves every request in a thread of its own and no lock guards the      *)
(* peers dict: a handler that tests "username in peers" and then uses the  *)
(* key can find it deleted by another handler meanwhile.  The KeyError is  *)
(* caught by the handler's except clause, which answers 500.               *)
(***************************************************************************)
\* what the server's handler steps leave alone
ClientsUnchanged ==
    UNCHANGED <<now, config, messages, consecutive_failures, running, peers,
                last_beacon, net, shared_resources, received_resources,
                downloaded_resources, downloads, local_copy, file, registered,
                known_registry_peers, thr>>

\* the handler of slot returns with this status
respond(slot, status) ==
    /\ handlers' = [handlers EXCEPT ![slot] = IdleHandler]
    /\ last' = [op |-> "response", slot |-> slot, request |-> handlers[slot].op,
                username |-> handlers[slot].username,
                body |-> handlers[slot].body, status |-> status]

\* the fields of a complete request body
AllFields == {"username", "address", "port"}

required_none(op) == {}

\* the fields a handler asks for: "if not all(k in peer_data for k in
\* ['username', 'address', 'port'])", "if 'username' not in peer_data"
required(op) ==
    IF op = "register" THEN {"username", "address", "port"}
    ELSE IF op \in {"unregister", "heartbeat"} THEN {"username"}
    ELSE {}

\* a request reaches the server; body is the set of fields of its JSON body
accept(slot, op, username, body) ==
    /\ handlers[slot].pc = "idle"
    /\ handlers' = [handlers EXCEPT ![slot] =
          [IdleHandler EXCEPT !.pc = "begin", !.op = op, !.username = username,
                              !.body = body]]
    /\ last' = [op |-> "request", slot |-> slot, request |-> op,
                username |-> username]
    /\ UNCHANGED srv_peers
    /\ ClientsUnchanged

\* a required field is missing: "return jsonify({...}), 400"
srv_missing_field(slot) ==
    /\ handlers[slot].pc = "begin"
    /\ ~(required(handlers[slot].op) \subseteq handlers[slot].body)
    /\ respond(slot, 400)
    /\ UNCHANGED srv_peers
    /\ ClientsUnchanged

\* register(): "peers[peer_data['username']] = peer_data"
srv_register(slot) ==
    /\ handlers[slot].pc = "begin" /\ handlers[slot].op = "register"
    /\ required(handlers[slot].op) \subseteq handlers[slot].body
    /\ LET u == handlers[slot].username IN
       srv_peers' = Put(srv_peers, u, [last_seen |-> now, port |-> config[u].port])
    /\ respond(slot, 200)
    /\ ClientsUnchanged

\* unregister() and heartbeat(): "if username in peers"
srv_test(slot) ==
    /\ handlers[slot].pc = "begin"
    /\ handlers[slot].op \in {"unregister", "heartbeat"}
    /\ required(handlers[slot].op) \subseteq handlers[slot].body
    /\ IF handlers[slot].username \in DOMAIN srv_peers
       THEN /\ handlers' = [handlers EXCEPT ![slot].pc = "use"]
            /\ last' = [op |-> "step", slot |-> slot]
       ELSE respond(slot, 200)
    /\ UNCHANGED srv_peers
    /\ ClientsUnchanged

\* unregister(): "del peers[username]"
srv_unregister_del(slot) ==
    /\ handlers[slot].pc = "use" /\ handlers[slot].op = "unregister"
    /\ LET u == handlers[slot].username IN
       IF u \in DOMAIN srv_peers
       THEN srv_peers' = Del(srv_peers, u) /\ respond(slot, 200)
       ELSE UNCHANGED srv_peers /\ respond(slot, 500)
    /\ ClientsUnchanged

\* heartbeat(): "peers[username]['last_seen'] = time.time()"
srv_heartbeat_set(slot) ==
    /\ handlers[slot].pc = "use" /\ handlers[slot].op = "heartbeat"
    /\ LET u == handlers[slot].username IN
       IF u \in DOMAIN srv_peers
       THEN /\ srv_peers' = [srv_peers EXCEPT ![u].last_seen = now]
            /\ respond(slot, 200)
       ELSE UNCHANGED srv_peers /\ respond(slot, 500)
    /\ ClientsUnchanged

\* get_peers(): "current_time = time.time()" and "list(peers.keys())"
srv_get_peers_keys(slot) ==
    /\ handlers[slot].pc = "begin" /\ handlers[slot].op = "peers"
    /\ required(handlers[slot].op) \subseteq handlers[slot].body
    /\ handlers' = [handlers EXCEPT ![slot].pc = "loop",
                                    ![slot].keys = DOMAIN srv_peers,
                                    ![slot].current_time = now]
    /\ last' = [op |-> "step", slot |-> slot]
    /\ UNCHANGED srv_peers
    /\ ClientsUnchanged

\* get_peers(): "if current_time - peers[username]['last_seen'] > 30" for
\* the next username of the list
srv_get_peers_test(slot, username) ==
    /\ handlers[slot].pc = "loop" /\ username \in handlers[slot].keys
    /\ IF username \notin DOMAIN srv_peers
       THEN respond(slot, 500)
       ELSE /\ handlers' = [handlers EXCEPT
                  ![slot].keys = @ \ {username},
                  ![slot].username = username,
                  ![slot].pc =
                     IF handlers[slot].current_time - srv_peers[username].last_seen
                           > StaleAfter
                     THEN "evict" ELSE "loop"]
            /\ last' = [op |-> "step", slot |-> slot]
    /\ UNCHANGED srv_peers
    /\ ClientsUnchanged

\* get_peers(): "del peers[username]"
srv_get_peers_del(slot) ==
    /\ handlers[slot].pc = "evict"
    /\ LET u == handlers[slot].username IN
       IF u \in DOMAIN srv_peers
       THEN /\ srv_peers' = Del(srv_peers, u)
            /\ handlers' = [handlers EXCEPT ![slot].pc = "loop"]
            /\ last' = [op |-> "step", slot |-> slot]
       ELSE UNCHANGED srv_peers /\ respond(slot, 500)
    /\ ClientsUnchanged

\* get_peers(): "return jsonify(list(peers.values()))"
srv_get_peers_return(slot) ==
    /\ handlers[slot].pc = "loop" /\ handlers[slot].keys = {}
    /\ respond(slot, 200)
    /\ UNCHANGED srv_peers
    /\ ClientsUnchanged

Endpoints == {"register", "unregister", "heartbeat", "peers"}

NextHandlers ==
    \/ Sleep(StaleAfter + 1, MaxServerTime)
    \/ \E slot \in Slots, op \in Endpoints, username \in Hosts :
          accept(slot, op, username, AllFields)
    \/ \E slot \in Slots : srv_register(slot)
    \/ \E slot \in Slots : srv_test(slot)
    \/ \E slot \in Slots : srv_unregister_del(slot)
    \/ \E slot \in Slots : srv_heartbeat_set(slot)
    \/ \E slot \in Slots : srv_get_peers_keys(slot)
    \/ \E slot \in Slots, username \in Hosts : srv_get_peers_test(slot, username)
    \/ \E slot \in Slots : srv_get_peers_del(slot)
    \/ \E slot \in Slots : srv_get_peers_return(slot)

SpecHandlers == Init /\ [][NextHandlers]_vars

\* C32: whatever the interleaving of the handlers of concurrent requests
\* with well-formed bodies, every request is answered with 200 and never
\* with 500, as it would be if each handler ran atomically on the peer map.
C32_Never500 ==
    last.op = "response" => last.status = 200

\* ---------------------------------------------------------------------
\* Request bodies

\* one request at a time, with any of the fields missing
NextBodies ==
    \/ Sleep(StaleAfter + 1, MaxServerTime)
    \/ \E slot \in Slots, op \in Endpoints, username \in Hosts,
          body \in SUBSET AllFields :
          /\ \A other \in Slots : handlers[other].pc = "idle"
          /\ accept(slot, op, username, body)
    \/ \E slot \in Slots : srv_missing_field(slot)
    \/ \E slot \in Slots : srv_register(slot)
    \/ \E slot \in Slots : srv_test(slot)
    \/ \E slot \in Slots : srv_unregister_del(slot)
    \/ \E slot \in Slots : srv_heartbeat_set(slot)
    \/ \E slot \in Slots : srv_get_peers_keys(slot)
    \/ \E slot \in Slots, username \in Hosts : srv_get_peers_test(slot, username)
    \/ \E slot \in Slots : srv_get_peers_del(slot)
    \/ \E slot \in Slots : srv_get_peers_return(slot)

SpecBodies == Init /\ [][NextBodies]_vars

\* C34: a request that lacks a required field (username, address or port
\* for /register, username for /unregister and /heartbeat) is answered 400
\* and leaves the peer map as it was, and no other request is answered 400;
\* /unregister for a username the map does not hold is answered 200 and
\* leaves the map as it was.
C34_BadRequest ==
    [][last'.op = "response" =>
          LET missing ==
                 \/ last'.request = "register" /\ last'.body # AllFields
                 \/ /\ last'.request \in {"unregister", "heartbeat"}
                    /\ "username" \notin last'.body
          IN
          /\ missing <=> last'.status = 400
          /\ missing => srv_peers' = srv_peers
          /\ (/\ ~missing /\ last'.request = "unregister"
              /\ last'.username \notin DOMAIN srv_peers) =>
                 last'.status = 200 /\ srv_peers' = srv_peers]_vars

\* a /register without its port was refused while the map held an entry
C34_Witness ==
    /\ last.op = "response" /\ last.status = 400
    /\ last.request = "register" /\ "port" \notin last.body
    /\ srv_peers # EmptyDict

\* ---------------------------------------------------------------------
\* Heartbeats and discoverability

\* C33: when POST /heartbeat for a username is answered 200 success, the
\* server map holds an entry of the username whose last_seen is the time of
\* the request, so that the next GET /peers lists it, also when the entry
\* had been evicted for staleness before.
C33_HeartbeatKeepsEntry ==
    [][(last'.op = "heartbeat" /\ last'.ret) =>
          LET u == last'.host IN
          /\ u \in DOMAIN srv_peers'
          /\ srv_peers'[u].last_seen = now'
          /\ u \in DOMAIN get_peers(srv_peers', now')]_vars

\* ---------------------------------------------------------------------
\* unregister() while a poll is in flight

\* refresh_peers: "while self.running and self.registered" holds and the
\* thread waits in requests.get(..., timeout=5)
refresh_peers_get(h) ==
    /\ running[h]
    /\ registered[h]
    /\ thr[h]["refresh"].pc = "idle"
    /\ thr' = [thr EXCEPT ![h]["refresh"] = [IdleThread EXCEPT !.pc = "get"]]
    /\ last' = [op |-> "refresh_get", host |-> h]
    /\ CatalogUnchanged
    /\ UNCHANGED <<now, config, messages, handlers, consecutive_failures,
                   running, peers, last_beacon, net, downloads, registered,
                   known_registry_peers, srv_peers>>

\* refresh_peers: the response arrives and the round runs to its end
refresh_peers_response(h, resp) ==
    /\ running[h]
    /\ thr[h]["refresh"].pc = "get"
    /\ refresh_round(h, resp)
    /\ thr' = [thr EXCEPT ![h]["refresh"] = IdleThread]
    /\ UNCHANGED <<now, config, messages, handlers, running, last_beacon,
                   downloads, registered>>

\* unregister(): "self.refresh_thread.join(1.0)" returned while the thread
\* was still waiting for its response
unregister_join_timeout(h, resp) ==
    /\ running[h]
    /\ registered[h]
    /\ thr[h]["refresh"].pc = "get"
    /\ srv_peers' = IF resp = "ok" THEN Del(srv_peers, h) ELSE srv_peers
    /\ peers' = [peers EXCEPT ![h] = _cleanup_registry_peers(peers[h])]
    /\ registered' = [registered EXCEPT ![h] = FALSE]
    /\ known_registry_peers' = [known_registry_peers EXCEPT ![h] = {}]
    /\ last' = [op |-> "unregister", host |-> h, resp |-> resp,
                ret |-> (resp = "ok"), before |-> peers[h]]
    /\ UNCHANGED <<now, config, messages, handlers, consecutive_failures,
                   running, last_beacon, net, shared_resources,
                   received_resources, downloaded_resources, downloads,
                   local_copy, file, thr>>

NextLate ==
    \/ \E h \in Watched : BroadcastPresence(h)
    \/ \E h \in Watchers : HandleAnnouncement(h)
    \/ \E h \in Hosts : register(h, TRUE)
    \/ \E h \in Watchers : refresh_peers_get(h)
    \/ \E h \in Watchers, resp \in {"ok", "fail"} :
          AtMostOneFailure(h, resp) /\ refresh_peers_response(h, resp)
    \/ \E h \in Watchers : unregister(h, "ok")
    \/ \E h \in Watchers : unregister_join_timeout(h, "ok")
    \/ \E h \in Watched, path \in OnePath : share_resource(h, path, TRUE)

SpecLate == Init /\ [][NextLate]_vars

\* C35: while a host is not registered, no row of its peer table has
\* registry_peer set: a refresh thread that outlives unregister() neither
\* inserts a row nor sets the flag.
C35_NoLateRow ==
    \A h \in Hosts : ~registered[h] =>
        \A u \in DOMAIN peers[h] : ~peers[h][u].registry_peer

\* ---------------------------------------------------------------------
\* Beacons of a departing host

C37_DownloadedHeld ==
    \A h \in Hosts : downloaded_resources[h] \subseteq DOMAIN received_resources[h]

\* ---------------------------------------------------------------------
\* Received records grant access

\* C38: in every state every record of a host's received map grants the
\* host access by its own fields: it is shared with everybody or names the
\* host among its allowed users.
C38_ReceivedGrants ==
    \A h \in Hosts : \A rid \in DOMAIN received_resources[h] :
        LET r == received_resources[h][rid] IN
        r.shared_to_all \/ h \in r.allowed_users

\* a host was taken off the access list of a record it keeps, because the
\* record is shared with everybody
C38_Witness ==
    /\ last.op = "access_update" /\ ~last.add /\ last.username = last.host
    /\ last.resource_id \in DOMAIN received_resources[last.host]
    /\ last.host \notin received_resources[last.host][last.resource_id].allowed_users

\* ---------------------------------------------------------------------
\* Access lists of records that are held

\* the owner shares one path, edits the flag and the access list, and the
\* other host follows the announcements and the access updates
NextStale ==
    \/ \E h \in Watchers : BroadcastPresence(h)
    \/ \E h \in Sharers : HandleAnnouncement(h)
    \/ \E h \in Sharers, path \in OnePath, all \in BOOLEAN :
          share_resource(h, path, all)
    \/ \E h \in Sharers, rid \in GrantIds, all \in BOOLEAN :
          set_share_to_all(h, rid, all)
    \/ \E h \in Sharers, rid \in GrantIds, u \in Watchers, add \in BOOLEAN :
          update_resource_access(h, rid, u, add)
    \/ \E h \in Watchers : _handle_resource_announcement(h)
    \/ \E h \in Watchers : _handle_access_update(h)

SpecStale == Init /\ [][NextStale]_vars

share_resource_delivered(h, path) ==
    /\ share_resource(h, path, TRUE)
    /\ last'.created =>
          \A rid \in last'.ret : \A d \in Watchers :
              AnnouncePkt(shared_resources'[h][rid], d) \in net'

\* the two hosts beacon and register, the owner shares one path with
\* everybody and may leave the registry, and the other host polls and takes
\* the announcements; no datagram is lost and the clock stands still
NextDeparture ==
    \/ \E h \in Hosts : BroadcastPresenceDelivered(h)
    \/ \E h \in Hosts : HandleAnnouncement(h) /\ DeliveredTo("b")
    \/ \E h \in Sharers, path \in OnePath : share_resource_delivered(h, path)
    \/ \E h \in Hosts : register(h, TRUE)
    \/ \E h \in Sharers : unregister(h, "ok")
    \/ \E h \in Watchers : refresh_peers(h, "ok")
    \/ \E h \in Watchers : _handle_resource_announcement(h)

\* the records the owner can make here, and their announcements in flight
DepartureRecords ==
    {SharedResource(h, path, isdir(path), TRUE, default_password, 0) :
        h \in Sharers, path \in OnePath}

DepartureDatagrams ==
    {AnnounceTo(r, d, DefaultPort) : r \in DepartureRecords, d \in Watchers}

\* the broadcast loops keep sending beacons, the listeners keep taking what
\* is on their sockets, and the refresh thread of a registered host keeps
\* polling
SpecDeparture ==
    /\ Init
    /\ [][NextDeparture]_vars
    /\ \A h \in Hosts : WF_vars(BroadcastPresenceDelivered(h))
    /\ \A h \in Hosts : WF_vars(HandleAnnouncement(h) /\ DeliveredTo("b"))
    /\ \A h \in Watchers : WF_vars(refresh_peers(h, "ok"))
    /\ \A p \in DepartureDatagrams : WF_vars(handle_file_share_packet(p.dst, p))

\* the owner h and the host d hold each other's row and the owned record of
\* rid grants d access
Linked(h, rid, d) ==
    /\ h \in DOMAIN peers[d]
    /\ d \in DOMAIN peers[h]
    /\ rid \in DOMAIN shared_resources[h]
    /\ can_access(shared_resources[h][rid], d)

\* C40: when from some point on the owner and the other host hold each
\* other's row and the owner's record of rid grants the other host access,
\* with no datagram lost, then from some point on the other host holds rid
\* in its received map.
C40_Availability ==
    \A h \in Sharers : \A rid \in GrantIds : \A d \in Watchers :
        <>[]Linked(h, rid, d) => <>[](rid \in DOMAIN received_resources[d])

====
